---- MODULE Spec2Model ----
(***************************************************************************)
(* news-track: the pipeline orchestration of app/main.py (run_pipeline,    *)
(* process_articles) together with the deduplicator of                     *)
(* app/utils/deduplication.py and the storage services of                  *)
(* app/db/services.py, as a state machine.                                 *)
(*                                                                         *)
(* One run of run_pipeline is a sequence of steps; every step ends at an   *)
(* awaited call into a collaborator (collector, LLM, database, SMTP)       *)
(* whose outcome (a value or an exception) is chosen with \E.  The         *)
(* variable `trace` records the calls the run makes on its collaborators,  *)
(* in order, the way a mock records them.                                  *)
(*                                                                         *)
(* Spec is one run of run_pipeline under every configuration; DedupSpec    *)
(* applies is_duplicate and deduplicate_articles to a list of articles and *)
(* a history; TwoRunSpec is two scheduled runs on one database.            *)
(***************************************************************************)
EXTENDS Integers, Sequences, FiniteSets, TLC

(***************************************************************************)
(* Bounds of the model.                                                    *)
(***************************************************************************)
\* longest list a collector returns
MaxBatch == 2
\* longest list handed to deduplicate_articles on its own
MaxDedupBatch == 3
\* longest list a collector returns in each of two consecutive runs
MaxRunBatch == 1
\* longest list a collector returns in the first of two runs on the same feed
MaxRetryBatch == 1
\* most fields in the query string of a url handed to normalize_url
MaxUrlFields == 3
\* most times asyncio.sleep returns in the keep-alive loop of run_scheduler
MaxHeartbeats == 2

(***************************************************************************)
(* Program constants.                                                      *)
(***************************************************************************)
\* ArticleDeduplicator.__init__: content_similarity_threshold = 0.85, in percent
CONTENT_SIMILARITY_THRESHOLD_PCT == 85
\* is_duplicate_by_content: get_recent_articles(days=7, ...)
RECENT_DAYS == 7
\* is_duplicate_by_content: get_recent_articles(..., limit=1000)
RECENT_LIMIT == 1000

(***************************************************************************)
(* Text.  A Python str is a sequence of one-character strings.             *)
(***************************************************************************)
\* str.lower() on ASCII: the upper-case letters and their lower-case forms
UpperToLower ==
    [A |-> "a", B |-> "b", C |-> "c", D |-> "d", E |-> "e", F |-> "f",
     G |-> "g", H |-> "h", I |-> "i", J |-> "j", K |-> "k", L |-> "l",
     M |-> "m", N |-> "n", O |-> "o", P |-> "p", Q |-> "q", R |-> "r",
     S |-> "s", T |-> "t", U |-> "u", V |-> "v", W |-> "w", X |-> "x",
     Y |-> "y", Z |-> "z"]

Lower(c) == IF c \in DOMAIN UpperToLower THEN UpperToLower[c] ELSE c

LowerStr(s) == [k \in 1..Len(s) |-> Lower(s[k])]

\* the characters str.strip() and str.split() treat as whitespace
IsSpace(c) == c \in {" ", "\n", "\t"}

\* str.split(): the maximal runs of non-whitespace characters, in order
RECURSIVE SplitFrom(_, _, _)
SplitFrom(s, k, word) ==
    IF k > Len(s)
    THEN IF word = <<>> THEN <<>> ELSE <<word>>
    ELSE IF IsSpace(s[k])
         THEN IF word = <<>>
              THEN SplitFrom(s, k + 1, <<>>)
              ELSE <<word>> \o SplitFrom(s, k + 1, <<>>)
         ELSE SplitFrom(s, k + 1, Append(word, s[k]))

Split(s) == SplitFrom(s, 1, <<>>)

\* ' '.join(words)
RECURSIVE JoinSpace(_)
JoinSpace(words) ==
    IF words = <<>> THEN <<>>
    ELSE IF Len(words) = 1 THEN words[1]
    ELSE words[1] \o <<" ">> \o JoinSpace(Tail(words))

\* ' '.join(content.lower().strip().split()); strip() before split() removes
\* only whitespace that split() drops as well
normalize_content(content) == JoinSpace(Split(LowerStr(content)))

\* calculate_content_hash: the SHA-256 digest of the normalized content.  The
\* digest is modelled by its preimage: equal digests iff equal normalized
\* contents (SHA-256 taken as collision free).
calculate_content_hash(content) == normalize_content(content)

(***************************************************************************)
(* difflib.SequenceMatcher(None, a, b).ratio(), with no junk (strings of   *)
(* fewer than 200 characters: the autojunk heuristic is off).              *)
(***************************************************************************)
\* length of the common run of a from i and b from j, inside a[..ahi), b[..bhi)
RECURSIVE RunLen(_, _, _, _, _, _)
RunLen(a, b, i, j, ahi, bhi) ==
    IF i < ahi /\ j < bhi /\ a[i] = b[j]
    THEN 1 + RunLen(a, b, i + 1, j + 1, ahi, bhi)
    ELSE 0

\* find_longest_match(alo, ahi, blo, bhi): the longest block, of those the one
\* starting earliest in a, of those the one starting earliest in b
FindLongestMatch(a, b, alo, ahi, blo, bhi) ==
    LET cands == {<<i, j>> \in (alo..(ahi - 1)) \X (blo..(bhi - 1)) :
                      RunLen(a, b, i, j, ahi, bhi) > 0}
        size(c) == RunLen(a, b, c[1], c[2], ahi, bhi)
    IN  IF cands = {} THEN <<alo, blo, 0>>
        ELSE LET best == CHOOSE c \in cands :
                     \A d \in cands :
                         \/ size(c) > size(d)
                         \/ /\ size(c) = size(d)
                            /\ \/ c[1] < d[1]
                               \/ c[1] = d[1] /\ c[2] <= d[2]
             IN  <<best[1], best[2], size(best)>>

\* get_matching_blocks: the sum of the sizes of the matching blocks
RECURSIVE MatchingSize(_, _, _, _, _, _)
MatchingSize(a, b, alo, ahi, blo, bhi) ==
    LET m == FindLongestMatch(a, b, alo, ahi, blo, bhi)
    IN  IF m[3] = 0 THEN 0
        ELSE m[3]
             + (IF alo < m[1] /\ blo < m[2]
                THEN MatchingSize(a, b, alo, m[1], blo, m[2]) ELSE 0)
             + (IF m[1] + m[3] < ahi /\ m[2] + m[3] < bhi
                THEN MatchingSize(a, b, m[1] + m[3], ahi, m[2] + m[3], bhi) ELSE 0)

\* ratio() = 2.0 * matches / (len(a) + len(b)), 1.0 when both are empty; a
\* ratio is kept as the fraction [num, den]
Ratio(a, b) ==
    IF Len(a) + Len(b) = 0 THEN [num |-> 1, den |-> 1]
    ELSE [num |-> 2 * MatchingSize(a, b, 1, Len(a) + 1, 1, Len(b) + 1),
          den |-> Len(a) + Len(b)]

\* calculate_content_similarity(content1, content2)
calculate_content_similarity(content1, content2) ==
    IF content1 = <<>> \/ content2 = <<>> THEN [num |-> 0, den |-> 1]
    ELSE Ratio(normalize_content(content1), normalize_content(content2))

\* variant, not the program: the threshold itself does not count as similar
AtLeastThreshold_Strict(similarity) ==
    100 * similarity.num > CONTENT_SIMILARITY_THRESHOLD_PCT * similarity.den

\* similarity >= self.content_similarity_threshold
AtLeastThreshold(similarity) ==
    100 * similarity.num >= CONTENT_SIMILARITY_THRESHOLD_PCT * similarity.den


VARIABLES
    settings,            \* app.config.settings, fixed for the process
    db,                  \* the tables of the SQLite database
    now,                 \* the current day (datetime.utcnow(), in days)
    next_id,             \* the next uuid4 (uuids never repeat)
    pc,                  \* where the run is
    articles,            \* run_pipeline / process_articles: articles
    processed_articles,  \* process_articles: processed_articles
    idx,                 \* process_articles: position of the for loop
    digest,              \* process_articles: digest (NoDigest before it is built)
    result,              \* what run_pipeline returned or raised
    trace                \* the calls made on the collaborators, in order

vars == <<settings, db, now, next_id, pc, articles, processed_articles, idx,
          digest, result, trace>>

(***************************************************************************)
(* Values.                                                                 *)
(***************************************************************************)
\* Optional[T]: None is <<>>, a value x is <<x>>
None == <<>>
Some(x) == <<x>>

\* Python truthiness of an Optional[str] or Optional[list]: neither None nor empty
Truthy(opt) == opt # None /\ opt[1] # <<>>

\* str.strip(): drop leading and trailing whitespace
RECURSIVE LStrip(_)
LStrip(s) == IF s # <<>> /\ IsSpace(s[1]) THEN LStrip(Tail(s)) ELSE s

RECURSIVE RStrip(_)
RStrip(s) ==
    IF s # <<>> /\ IsSpace(s[Len(s)]) THEN RStrip(SubSeq(s, 1, Len(s) - 1)) ELSE s

Strip(s) == RStrip(LStrip(s))

\* what a collector can find: (url, content) pairs.  Story 2 is story 1
\* republished with a tracking parameter and whitespace/case drift.
Letters ==
    <<"a", "b", "c", "d", "e", "f", "g", "h", "i", "j", "k", "l", "m", "n", "o",
      "p", "q", "r", "s", "t", "u", "v", "w", "x">>

\* Stories 9 to 11 are feed entries without a description: their content is
\* empty or whitespace only.
\* Stories 4 to 8 are for the deduplicator: story 4 has the url of story 1 and
\* another content; story 8 has the content of story 1, up to case, and
\* another url; the contents of stories 5 and 6 are similar with ratio
\* 2 * 17 / (17 + 23) = 0.85, those of stories 5 and 7 with ratio
\* 2 * 17 / (17 + 24) < 0.85.
Stories ==
    << [url |-> "http://x.com/a", content |-> <<"a", "b", " ", "c">>],
       [url |-> "http://x.com/a?utm_source=y",
        content |-> <<"A", "b", " ", " ", "c", "\n">>],
       [url |-> "http://x.com/b", content |-> <<"x", "y", "z">>],
       [url |-> "http://x.com/a", content |-> <<"q">>],
       [url |-> "http://x.com/c", content |-> SubSeq(Letters, 1, 17)],
       [url |-> "http://x.com/d", content |-> SubSeq(Letters, 1, 23)],
       [url |-> "http://x.com/e", content |-> SubSeq(Letters, 1, 24)],
       [url |-> "http://x.com/f", content |-> <<"A", "B", " ", "c">>],
       [url |-> "http://x.com/g", content |-> <<>>],
       [url |-> "http://x.com/h", content |-> <<" ", "\n">>],
       [url |-> "http://x.com/i", content |-> <<" ">>] >>

\* the stories earlier runs stored, and the stories the collectors find now
StoredStories == {1}
FoundStories == {2, 3}

\* the lists of stories a fetch can return, the empty list included
Batches == UNION {[1..n -> FoundStories] : n \in 0..MaxBatch}

\* Article(...): id is a fresh uuid4, created_at the time of creation
Article(id, story, day) ==
    [id |-> id, url |-> Stories[story].url, content |-> Stories[story].content,
     created_at |-> day]

\* the Article objects a collector builds for a batch of stories
MakeArticles(batch, first_id, day) ==
    [k \in 1..Len(batch) |-> Article(first_id + k - 1, batch[k], day)]

NoDigest == [id |-> 0, title |-> "", articles |-> <<>>, overall_summary |-> None]

\* one recorded call: op on collaborator who, with argument arg; ok is FALSE
\* when the call raised
Call(op, who, arg, ok) == [op |-> op, who |-> who, arg |-> arg, ok |-> ok]

(***************************************************************************)
(* app/db/services.py: the tables are lists of rows, in insertion order.   *)
(***************************************************************************)
\* ArticleService.save_article: an existing id is returned, a new row added
save_article(dbv, article) ==
    IF \E k \in 1..Len(dbv.articles) : dbv.articles[k].id = article.id
    THEN dbv
    ELSE [dbv EXCEPT !.articles = Append(@, article)]

\* variant, not the program: the session is never committed, so a call that
\* returns leaves no row
save_processed_article_Uncommitted(dbv, pa, outcome) == dbv

\* ProcessedArticleService.save_processed_article.  outcome "ok": the call
\* returns; "raise_early": it raises before any commit; "raise_late": it raises
\* after save_article committed the original article (the rollback undoes only
\* the uncommitted processed row).
save_processed_article(dbv, pa, outcome) ==
    IF outcome = "raise_early" THEN dbv
    ELSE IF \E k \in 1..Len(dbv.processed) : dbv.processed[k].id = pa.id
    THEN dbv
    ELSE LET d1 == save_article(dbv, pa.original_article)
         IN  IF outcome = "raise_late" THEN d1
             ELSE [d1 EXCEPT !.processed =
                      Append(@, [id |-> pa.id,
                                 original_article_id |-> pa.original_article.id])]

SaveOutcomes == {"ok", "raise_early", "raise_late"}

\* DigestService.save_digest, of which `steps` steps complete: each of the
\* first steps saves one processed article of the digest (committed at once);
\* the last step, Len(articles) + 1, adds and commits the digest row and its
\* links.  With fewer steps the call raises.
RECURSIVE SaveAll(_, _, _)
SaveAll(dbv, pas, n) ==
    IF n = 0 THEN dbv
    ELSE save_processed_article(SaveAll(dbv, pas, n - 1), pas[n], "ok")

save_digest(dbv, dg, steps) ==
    IF \E k \in 1..Len(dbv.digests) : dbv.digests[k].id = dg.id
    THEN dbv
    ELSE LET n  == IF steps > Len(dg.articles) THEN Len(dg.articles) ELSE steps
             d1 == SaveAll(dbv, dg.articles, n)
         IN  IF steps <= Len(dg.articles) THEN d1
             ELSE [d1 EXCEPT !.digests =
                      Append(@, [id |-> dg.id,
                                 processed_article_ids |->
                                     [k \in 1..Len(dg.articles) |-> dg.articles[k].id]])]

\* ArticleService.get_recent_articles(days, limit): the rows created on or
\* after the cutoff, newest first (rows of the same day in insertion order; SQL
\* leaves their order open and only the reason text could depend on it), at
\* most limit of them
RECURSIVE NewestFirst(_)
NewestFirst(rows) ==
    IF rows = <<>> THEN <<>>
    ELSE LET k == CHOOSE k \in 1..Len(rows) :
                      /\ \A j \in 1..Len(rows) : rows[j].created_at <= rows[k].created_at
                      /\ \A j \in 1..(k - 1) : rows[j].created_at < rows[k].created_at
         IN  <<rows[k]>> \o
             NewestFirst(SubSeq(rows, 1, k - 1) \o SubSeq(rows, k + 1, Len(rows)))

\* variant, not the program: an article created exactly `days` ago is no longer recent
get_recent_articles_Strict(dbv, today, days, limit) ==
    LET rows == SelectSeq(dbv.articles, LAMBDA r : r.created_at > today - days)
    IN  IF Len(rows) > limit THEN SubSeq(rows, 1, limit) ELSE rows

get_recent_articles(dbv, today, days, limit) ==
    LET cutoff_date == today - days
        rows == SelectSeq(dbv.articles, LAMBDA r : r.created_at >= cutoff_date)
        sorted == NewestFirst(rows)
    IN  IF Len(sorted) > limit THEN SubSeq(sorted, 1, limit) ELSE sorted

\* the methods class ArticleService defines
ArticleServiceMethods == {"save_article", "get_article_by_id", "get_recent_articles"}

(***************************************************************************)
(* app/utils/deduplication.py: ArticleDeduplicator.                        *)
(***************************************************************************)
Verdict(dup, reason) == [dup |-> dup, reason |-> reason]

\* is_duplicate_by_url.  With the database enabled the first lookup,
\* ArticleService.check_article_exists_by_url, is an attribute the class does
\* not define: the AttributeError is caught by the except clause and the
\* verdict is "Database check failed".  The lookups themselves are reached
\* only if the class defines the method.
is_duplicate_by_url(article, dbv, enabled) ==
    IF ~enabled THEN Verdict(FALSE, "Database not enabled")
    ELSE IF "check_article_exists_by_url" \notin ArticleServiceMethods
    THEN Verdict(FALSE, "Database check failed")
    ELSE IF \E k \in 1..Len(dbv.articles) : dbv.articles[k].url = article.url
    THEN Verdict(TRUE, "Exact URL match in database")
    ELSE Verdict(FALSE, "")

\* the for loop of is_duplicate_by_content over recent_articles, from row k
RECURSIVE ContentScan(_, _, _)
ContentScan(article, recent_articles, k) ==
    IF k > Len(recent_articles) THEN Verdict(FALSE, "")
    ELSE LET existing_article == recent_articles[k]
         IN  IF calculate_content_hash(article.content)
                    = calculate_content_hash(existing_article.content)
             THEN Verdict(TRUE, "Exact content match in database")
             ELSE IF AtLeastThreshold(calculate_content_similarity(
                         article.content, existing_article.content))
             THEN Verdict(TRUE, "Similar content in database")
             ELSE ContentScan(article, recent_articles, k + 1)

\* variant, not the program: an article whose history query raised is held back as a
\* duplicate
is_duplicate_by_content_FailClosed(article, dbv, today, enabled, query_ok) ==
    IF ~enabled THEN [dup |-> FALSE, reason |-> "Database not enabled"]
    ELSE [dup |-> TRUE, reason |-> "Database check failed"]

\* is_duplicate_by_content; query_ok is FALSE when get_recent_articles raises
is_duplicate_by_content(article, dbv, today, enabled, query_ok) ==
    IF ~enabled THEN Verdict(FALSE, "Database not enabled")
    ELSE IF ~query_ok THEN Verdict(FALSE, "Database check failed")
    ELSE ContentScan(article,
                     get_recent_articles(dbv, today, RECENT_DAYS, RECENT_LIMIT), 1)

\* is_duplicate: the URL check, then the content check
is_duplicate(article, dbv, today, enabled, query_ok) ==
    LET by_url == is_duplicate_by_url(article, dbv, enabled)
    IN  IF by_url.dup THEN Verdict(TRUE, "URL duplicate")
        ELSE LET by_content ==
                     is_duplicate_by_content(article, dbv, today, enabled, query_ok)
             IN  IF by_content.dup THEN Verdict(TRUE, "Content duplicate")
                 ELSE Verdict(FALSE, "")

\* variant, not the program: an article is also compared with the earlier articles of
\* the same list
RECURSIVE DedupFrom_IntraBatch(_, _, _, _, _, _)
DedupFrom_IntraBatch(arts, k, dbv, today, enabled, queries_ok) ==
    IF k > Len(arts) THEN <<>>
    ELSE LET rest == DedupFrom_IntraBatch(arts, k + 1, dbv, today, enabled, queries_ok)
         IN  IF \/ is_duplicate(arts[k], dbv, today, enabled, queries_ok[k]).dup
                \/ \E j \in 1..(k - 1) : arts[j].url = arts[k].url
             THEN rest
             ELSE <<arts[k]>> \o rest

\* variant, not the program: the survivors are returned newest first
RECURSIVE DedupFrom_Reversed(_, _, _, _, _, _)
DedupFrom_Reversed(arts, k, dbv, today, enabled, queries_ok) ==
    IF k > Len(arts) THEN <<>>
    ELSE LET rest == DedupFrom_Reversed(arts, k + 1, dbv, today, enabled, queries_ok)
         IN  IF is_duplicate(arts[k], dbv, today, enabled, queries_ok[k]).dup
             THEN rest
             ELSE rest \o <<arts[k]>>

\* deduplicate_articles: the articles is_duplicate does not flag, in order;
\* queries_ok[k] is FALSE when the history query for article k raises
RECURSIVE DedupFrom(_, _, _, _, _, _)
DedupFrom(arts, k, dbv, today, enabled, queries_ok) ==
    IF k > Len(arts) THEN <<>>
    ELSE LET rest == DedupFrom(arts, k + 1, dbv, today, enabled, queries_ok)
         IN  IF is_duplicate(arts[k], dbv, today, enabled, queries_ok[k]).dup
             THEN rest
             ELSE <<arts[k]>> \o rest

deduplicate_articles(arts, dbv, today, enabled, queries_ok) ==
    DedupFrom(arts, 1, dbv, today, enabled, queries_ok)

(***************************************************************************)
(* app/processors/llm.py                                                   *)
(***************************************************************************)
\* what the LLM call of summarize_articles can do: answer with a summary,
\* answer with an empty summary, or raise
LlmOutcomes == {"text", "empty", "raise"}

\* LLMProcessor.summarize_articles, for the lists of two or more articles that
\* process_articles passes: the summary text, or, when the LLM call raises,
\* the text of the error message (the method catches the exception itself)
summarize_articles(llm) ==
    CASE llm = "text"  -> <<"s", "u", "m">>
      [] llm = "empty" -> <<>>
      [] llm = "raise" -> <<"e", "r", "r">>

(***************************************************************************)
(* Initial states: the settings the process was started with and the       *)
(* database earlier runs left behind.                                      *)
(***************************************************************************)
Topics == {None, Some(<<" ", " ">>), Some(<<"t">>)}
FeedUrlLists == {None, Some(<< <<"f">> >>), Some(<< <<>> >>)}
FeedUrls == {None, Some(<<"g">>)}

Settings ==
    [email : BOOLEAN,                  \* settings.email is not None
     huatu_enabled : BOOLEAN,          \* settings.huatu_enabled
     topic : Topics,                   \* settings.search.topic
     rss_feed_urls : FeedUrlLists,     \* settings.search.rss_feed_urls
     rss_feed_url : FeedUrls,          \* settings.search.rss_feed_url
     database_enabled : BOOLEAN,       \* settings.database.enabled
     deduplication_enabled : BOOLEAN]  \* settings.deduplication.enabled

\* the run starts on day Today; a stored article is RECENT_DAYS old (the
\* oldest day get_recent_articles still returns) or a day older
Today == RECENT_DAYS + 1
HistoryDays == {Today - RECENT_DAYS - 1, Today - RECENT_DAYS}

\* what earlier runs stored: nothing, or one stored story on either day.
\* Article k of a history has id 2k - 1 and its processed article id 2k.
Histories ==
    {<<>>} \cup {<< <<story, day>> >> : story \in StoredStories, day \in HistoryDays}

HistoryDb(h) ==
    [articles  |-> [k \in 1..Len(h) |-> Article(2 * k - 1, h[k][1], h[k][2])],
     processed |-> [k \in 1..Len(h) |->
                       [id |-> 2 * k, original_article_id |-> 2 * k - 1]],
     digests   |-> <<>>]

Init ==
    /\ settings \in Settings
    /\ \E h \in Histories :
          /\ db = HistoryDb(h)
          /\ next_id = 2 * Len(h) + 1
    /\ now = Today
    /\ pc = "start"
    /\ articles = <<>>
    /\ processed_articles = <<>>
    /\ idx = 1
    /\ digest = NoDigest
    /\ result = "running"
    /\ trace = <<>>

(***************************************************************************)
(* run_pipeline                                                            *)
(***************************************************************************)
\* variant, not the program: the feeds are looked at first, the topic only when none is configured
TopicGiven_FeedsFirst ==
    /\ Truthy(settings.topic) /\ Strip(settings.topic[1]) # <<>>
    /\ ~Truthy(settings.rss_feed_urls)
    /\ ~Truthy(settings.rss_feed_url)

\* search_config.topic and search_config.topic.strip()
TopicGiven == Truthy(settings.topic) /\ Strip(settings.topic[1]) # <<>>

\* feed_urls_to_use
feed_urls_to_use ==
    IF Truthy(settings.rss_feed_urls) THEN settings.rss_feed_urls[1]
    ELSE IF Truthy(settings.rss_feed_url) THEN <<settings.rss_feed_url[1]>>
    ELSE <<>>

\* RSSCollector.__init__ raises ValueError unless every feed url is non-empty
RssConstructorRaises(feed_urls) ==
    feed_urls = <<>> \/ \E k \in 1..Len(feed_urls) : feed_urls[k] = <<>>

\* return None / raise: the run is over
Return(value) ==
    /\ result' = value
    /\ pc' = "done"

\* the calls is_duplicate makes for one article: the URL lookup (line 150),
\* which raises, then the recent-articles query (line 184)
IsDuplicateCalls(article, enabled, query_ok) ==
    IF ~enabled THEN <<>>
    ELSE << Call("check_article_exists_by_url", "", article.id,
                 "check_article_exists_by_url" \in ArticleServiceMethods),
            Call("get_recent_articles", "", article.id, query_ok) >>

\* lines 246-251 of deduplicate_articles: the decision on one article is logged
Logged(article, verdict) ==
    Call("log", IF verdict.dup THEN "Skipping duplicate article"
                ELSE "Added unique article", article.id, TRUE)

\* the calls and log lines of deduplicate_articles, from article k on
RECURSIVE DedupCallsFrom(_, _, _, _, _, _)
DedupCallsFrom(arts, k, dbv, today, enabled, queries_ok) ==
    IF k > Len(arts) THEN <<>>
    ELSE IsDuplicateCalls(arts[k], enabled, queries_ok[k])
         \o <<Logged(arts[k], is_duplicate(arts[k], dbv, today, enabled, queries_ok[k]))>>
         \o DedupCallsFrom(arts, k + 1, dbv, today, enabled, queries_ok)

\* the common tail of the three collection blocks: the fetch returned `batch`;
\* it is deduplicated when it is non-empty and deduplication is enabled.  With
\* log_queries the trace also keeps the history queries and the decisions of
\* the dedup stage.
Collected(who, batch, queries_ok, log_queries) ==
    LET fetched == MakeArticles(batch, next_id, now)
        dedup   == fetched # <<>> /\ settings.deduplication_enabled
        unique  == IF dedup
                   THEN deduplicate_articles(fetched, db, now,
                                             settings.database_enabled, queries_ok)
                   ELSE fetched
        t1      == Append(trace, Call("fetch", who, Len(fetched), TRUE))
        t2      == IF log_queries
                   THEN t1 \o DedupCallsFrom(fetched, 1, db, now,
                                             settings.database_enabled, queries_ok)
                   ELSE t1
    IN  /\ articles' = unique
        /\ next_id' = next_id + Len(batch)
        /\ trace' = IF dedup
                    THEN Append(t2, Call("deduplicate_articles", who, Len(unique), TRUE))
                    ELSE t1

\* variant, not the program: the list is taken to be empty whatever it holds
ArticlesLeft_Never(arts) == FALSE

\* `if articles:` (line 202) and `if not articles:` (line 257)
ArticlesLeft(arts) == arts # <<>>

\* lines 66-75: process_articles(arts) returns None for an empty list, else
\* starts its loop
EnterProcess(arts) ==
    IF arts = <<>>
    THEN /\ Return("None")
         /\ UNCHANGED <<processed_articles, idx>>
    ELSE /\ pc' = "process"
         /\ idx' = 1
         /\ processed_articles' = <<>>
         /\ UNCHANGED result

\* variant, not the program: the email check is left to the notify stage
EmailMissing_Ignored == FALSE

\* `if not settings.email:` (line 174)
EmailMissing == ~settings.email

\* lines 153-181: init_db (its failure is logged), get_deduplicator, the email
\* check
Start ==
    /\ pc = "start"
    /\ \E init_ok \in (IF settings.database_enabled THEN BOOLEAN ELSE {TRUE}) :
          trace' = IF settings.database_enabled
                   THEN Append(trace, Call("init_db", "", 0, init_ok))
                   ELSE trace
    /\ IF EmailMissing
       THEN Return("ValueError")
       ELSE /\ pc' = IF settings.huatu_enabled THEN "huatu" ELSE "other"
            /\ UNCHANGED result
    /\ UNCHANGED <<settings, db, now, next_id, articles, processed_articles, idx, digest>>

\* variant, not the program: a failure of the portal collector ends the run like any other
HuatuFailed_Aborts == Return("None")

\* lines 205-207: the exception of the Huatu block is logged and the run goes
\* on to the next block
HuatuFailed ==
    /\ pc' = "other"
    /\ UNCHANGED result

\* variant, not the program: the exception of the collector reaches the caller of run_pipeline
CollectorFailed_Propagates == Return("Exception")

\* lines 227-229 and 250-252: the exception of the search or RSS block is
\* logged and run_pipeline returns None
CollectorFailed == Return("None")

\* variant, not the program: a run with nothing to collect is a configuration error
NoCollector_Raises ==
    /\ pc = "other"
    /\ ~TopicGiven
    /\ feed_urls_to_use = <<>>
    /\ Return("ValueError")
    /\ UNCHANGED <<settings, db, now, next_id, articles, processed_articles, idx,
                   digest, trace>>

\* the outcomes of the history queries deduplicate_articles makes for a batch:
\* each can raise only if it is made at all
QueryOutcomes(batch) ==
    IF settings.deduplication_enabled /\ settings.database_enabled
    THEN [1..Len(batch) -> BOOLEAN]
    ELSE {[k \in 1..Len(batch) |-> TRUE]}

\* lines 184-207: the Huatu block.  An exception is logged and the run goes on
\* to the next block, as it does when no article is left.
CollectHuatu ==
    /\ pc = "huatu"
    /\ \/ /\ trace' = Append(trace, Call("fetch", "huatu", 0, FALSE))
          /\ HuatuFailed
          /\ UNCHANGED <<articles, next_id, processed_articles, idx>>
       \/ \E batch \in Batches : \E queries_ok \in QueryOutcomes(batch) :
             /\ Collected("huatu", batch, queries_ok, FALSE)
             /\ IF ArticlesLeft(articles')
                THEN EnterProcess(articles')
                ELSE /\ pc' = "other"
                     /\ UNCHANGED <<processed_articles, idx, result>>
    /\ UNCHANGED <<settings, db, now, digest>>

\* lines 211-229 and 257-262: the Google Search block
CollectSearch ==
    /\ pc = "other"
    /\ TopicGiven
    /\ \/ /\ trace' = Append(trace, Call("fetch", "search", 0, FALSE))
          /\ CollectorFailed
          /\ UNCHANGED <<articles, next_id, processed_articles, idx>>
       \/ \E batch \in Batches : \E queries_ok \in QueryOutcomes(batch) :
             /\ Collected("search", batch, queries_ok, FALSE)
             /\ IF ArticlesLeft(articles')
                THEN EnterProcess(articles')
                ELSE Return("None") /\ UNCHANGED <<processed_articles, idx>>
    /\ UNCHANGED <<settings, db, now, digest>>

\* lines 230-252 and 257-262: the RSS block, for a collector that returns one
\* of the lists `batches`
RssBlock(batches, log_queries) ==
    /\ pc = "other"
    /\ ~TopicGiven
    /\ feed_urls_to_use # <<>>
    /\ \/ /\ RssConstructorRaises(feed_urls_to_use)
          /\ trace' = Append(trace, Call("RSSCollector", "rss", 0, FALSE))
          /\ CollectorFailed
          /\ UNCHANGED <<articles, next_id, processed_articles, idx>>
       \/ /\ ~RssConstructorRaises(feed_urls_to_use)
          /\ trace' = Append(trace, Call("fetch", "rss", 0, FALSE))
          /\ CollectorFailed
          /\ UNCHANGED <<articles, next_id, processed_articles, idx>>
       \/ /\ ~RssConstructorRaises(feed_urls_to_use)
          /\ \E batch \in batches : \E queries_ok \in QueryOutcomes(batch) :
                /\ Collected("rss", batch, queries_ok, log_queries)
                /\ IF ArticlesLeft(articles')
                   THEN EnterProcess(articles')
                   ELSE Return("None") /\ UNCHANGED <<processed_articles, idx>>
    /\ UNCHANGED <<settings, db, now, digest>>

CollectRss == RssBlock(Batches, FALSE)

\* lines 253-255: no topic and no feed
NoCollector ==
    /\ pc = "other"
    /\ ~TopicGiven
    /\ feed_urls_to_use = <<>>
    /\ Return("None")
    /\ UNCHANGED <<settings, db, now, next_id, articles, processed_articles, idx,
                   digest, trace>>

(***************************************************************************)
(* process_articles                                                        *)
(***************************************************************************)
\* ProcessedArticle(...): id is a fresh uuid4
ProcessedArticle(id, article) == [id |-> id, original_article |-> article]

\* variant, not the program: the exception of process_article reaches the outer handler of
\* process_articles (lines 136-138), which returns None
ArticleFailed_Aborts == Return("None")

\* variant, not the program: the exception of process_article reaches the caller of
\* run_pipeline
ArticleFailed_Propagates == Return("Exception")

\* lines 91-92: the exception of process_article is logged and the loop goes on
ArticleFailed == UNCHANGED <<pc, result>>

\* variant, not the program: the exception of save_processed_article reaches the outer
\* handler of process_articles (lines 136-138), which returns None
SaveFailed_Aborts == Return("None")

\* lines 88-89: the exception of save_processed_article is logged and the loop
\* goes on
SaveFailed == UNCHANGED <<pc, result>>

\* variant, not the program: the article is stored before it is processed, so it
\* stays in the history when process_article raises
FailedArticle_Stored(article) ==
    /\ db' = save_article(db, article)
    /\ UNCHANGED <<processed_articles, next_id>>

\* lines 78-79 and 91: when process_article raises nothing is appended and
\* nothing is saved
FailedArticle(article) == UNCHANGED <<processed_articles, next_id, db>>

\* lines 76-92: one pass of the for loop.  process_article returns or raises;
\* a processed article is appended and, with the database enabled, saved (a
\* failure of the save is logged).
ProcessArticle ==
    /\ pc = "process"
    /\ idx <= Len(articles)
    /\ LET article == articles[idx]
       IN  \/ /\ trace' = Append(trace, Call("process_article", "", article.id, FALSE))
              /\ ArticleFailed
              /\ FailedArticle(article)
           \/ LET processed_article == ProcessedArticle(next_id, article)
                   t1 == Append(trace, Call("process_article", "", article.id, TRUE))
              IN  /\ processed_articles' = Append(processed_articles, processed_article)
                  /\ next_id' = next_id + 1
                  /\ IF settings.database_enabled
                     THEN \E outcome \in SaveOutcomes :
                             /\ db' = save_processed_article(db, processed_article, outcome)
                             /\ trace' = Append(t1, Call("save_processed_article", "",
                                                          processed_article.id,
                                                          outcome = "ok"))
                             /\ IF outcome = "ok"
                                THEN UNCHANGED <<pc, result>>
                                ELSE SaveFailed
                     ELSE /\ trace' = t1
                          /\ UNCHANGED <<db, pc, result>>
    /\ idx' = idx + 1
    /\ UNCHANGED <<settings, now, articles, digest>>

\* Digest(title=..., articles=..., overall_summary=...): id is a fresh uuid4
Digest(id, title, pas, overall_summary) ==
    [id |-> id, title |-> title, articles |-> pas, overall_summary |-> overall_summary]

\* variant, not the program: the articles counted are the processed ones
SeveralArticles_Processed(arts) == Len(processed_articles) > 1

\* `if len(articles) > 1:` (line 101), on the list process_articles was given
SeveralArticles(arts) == Len(arts) > 1

\* lines 99-108: the overall summary and the title.  summarize_articles is
\* called when more than one article was passed in.
OverallSummary(arts, llm) ==
    IF SeveralArticles(arts) THEN Some(summarize_articles(llm)) ELSE None

SummaryTitle(overall_summary) ==
    IF Truthy(overall_summary) THEN "app_name - summary - time" ELSE "app_name - time"

\* variant, not the program: a digest is built even when nothing was processed
NothingProcessed_Never(pas) == FALSE

\* `if not processed_articles:` (line 94)
NothingProcessed(pas) == pas = <<>>

\* variant, not the program: only a digest with an overall summary is sent
ShouldNotify_OnlyWithSummary == settings.email /\ Truthy(digest.overall_summary)

\* `if settings.email:` (line 127)
ShouldNotify == settings.email

\* variant, not the program: the digest is handed to the notifier without being
\* saved
ShouldSaveDigest_Never == FALSE

\* `if settings.database.enabled:` (line 118)
ShouldSaveDigest == settings.database_enabled

\* lines 94-115: after the loop.  Nothing processed: return None.  Otherwise
\* the overall summary is asked for and the Digest built.
Summarize ==
    /\ pc = "process"
    /\ idx > Len(articles)
    /\ IF NothingProcessed(processed_articles)
       THEN /\ Return("None")
            /\ UNCHANGED <<digest, next_id, trace>>
       ELSE /\ \E llm \in (IF SeveralArticles(articles) THEN LlmOutcomes ELSE {"text"}) :
                  LET overall_summary == OverallSummary(articles, llm)
                  IN  /\ digest' = Digest(next_id, SummaryTitle(overall_summary),
                                          processed_articles, overall_summary)
                      /\ trace' = IF SeveralArticles(articles)
                                  THEN Append(trace, Call("summarize_articles", "",
                                                          Len(articles), llm # "raise"))
                                  ELSE trace
            /\ next_id' = next_id + 1
            /\ pc' = IF ShouldSaveDigest THEN "save_digest" ELSE "notify"
            /\ UNCHANGED result
    /\ UNCHANGED <<settings, db, now, articles, processed_articles, idx>>

\* lines 117-124: the digest is saved; a failure is logged
SaveDigest ==
    /\ pc = "save_digest"
    /\ \E steps \in 0..(Len(digest.articles) + 1) :
          /\ db' = save_digest(db, digest, steps)
          /\ trace' = Append(trace, Call("save_digest", "", digest.id,
                                         steps = Len(digest.articles) + 1))
    /\ pc' = "notify"
    /\ UNCHANGED <<settings, now, next_id, articles, processed_articles, idx, digest,
                   result>>

\* lines 126-135: the digest is sent when settings.email is set; a failure of
\* send_digest is logged; the digest is returned
Notify ==
    /\ pc = "notify"
    /\ IF ShouldNotify
       THEN \E sent \in BOOLEAN :
               trace' = Append(trace, Call("send_digest", "", digest.id, sent))
       ELSE UNCHANGED trace
    /\ Return("Digest")
    /\ UNCHANGED <<settings, db, now, next_id, articles, processed_articles, idx, digest>>

Next ==
    \/ Start
    \/ CollectHuatu
    \/ CollectSearch
    \/ CollectRss
    \/ NoCollector
    \/ ProcessArticle
    \/ Summarize
    \/ SaveDigest
    \/ Notify

Spec == Init /\ [][Next]_vars

(***************************************************************************)
(* Two consecutive runs of run_pipeline on one database, as the scheduler  *)
(* starts them: RSS collection with the database and deduplication         *)
(* enabled.  The trace is the trace of the current run and keeps the       *)
(* history queries of its dedup stage.                                     *)
(***************************************************************************)
\* days between the two runs: inside the lookback window, on its edge, outside
RunGaps == {1, RECENT_DAYS, RECENT_DAYS + 1}

RunBatches == UNION {[1..n -> FoundStories] : n \in 0..MaxRunBatch}

TwoRunSettings == {st \in Settings : /\ st.email /\ ~st.huatu_enabled
                                     /\ st.topic = None
                                     /\ st.rss_feed_urls = None
                                     /\ st.rss_feed_url = Some(<<"g">>)
                                     /\ st.database_enabled
                                     /\ st.deduplication_enabled}

TwoRunInit ==
    /\ Init
    /\ settings \in TwoRunSettings

CollectRssLogged == RssBlock(RunBatches, TRUE)

\* run_scheduler, lines 289-296: the job runs run_pipeline again, here once,
\* some days after the first run returned; the database file stays
NextRun ==
    /\ pc = "done"
    /\ now = Today
    /\ \E gap \in RunGaps : now' = now + gap
    /\ pc' = "start"
    /\ articles' = <<>>
    /\ processed_articles' = <<>>
    /\ idx' = 1
    /\ digest' = NoDigest
    /\ result' = "running"
    /\ trace' = <<>>
    /\ UNCHANGED <<settings, db, next_id>>

TwoRunNext ==
    \/ Start
    \/ CollectRssLogged
    \/ ProcessArticle
    \/ Summarize
    \/ SaveDigest
    \/ Notify
    \/ NextRun

TwoRunSpec == TwoRunInit /\ [][TwoRunNext]_vars

(***************************************************************************)
(* Two consecutive runs on a feed that does not change: the second run     *)
(* collects again the entries the first run kept.  `articles` stands for   *)
(* those entries between the runs, and the trace keeps the process, save   *)
(* and send calls of the first run, closed by a run_pipeline mark.         *)
(***************************************************************************)
RetryBatches == UNION {[1..n -> FoundStories] : n \in 0..MaxRetryBatch}

\* the feed entry an article was built from
StoryOf(article) ==
    CHOOSE s \in 1..Len(Stories) : /\ Stories[s].url = article.url
                                   /\ Stories[s].content = article.content

StoriesOf(arts) == [k \in 1..Len(arts) |-> StoryOf(arts[k])]

\* days between the two runs: the job runs again the same day, or when the
\* lookback window has passed
RetryGaps == {0, RECENT_DAYS + 1}

\* the first run has returned and the job has started run_pipeline again
SecondRun == \E k \in 1..Len(trace) : trace[k].op = "run_pipeline"

\* the calls of the first run that the trace of the second run keeps
FirstRunKept == {"process_article", "save_processed_article", "send_digest"}

RetryInit == TwoRunInit

\* the first run collects any batch, the second the entries of the first
CollectRssRetry ==
    RssBlock(IF SecondRun THEN {StoriesOf(articles)} ELSE RetryBatches, TRUE)

\* run_scheduler, lines 289-296: the job runs run_pipeline again
RunAgain ==
    /\ pc = "done"
    /\ ~SecondRun
    /\ \E gap \in RetryGaps : now' = now + gap
    /\ pc' = "start"
    /\ processed_articles' = <<>>
    /\ idx' = 1
    /\ digest' = NoDigest
    /\ result' = "running"
    /\ trace' = Append(SelectSeq(trace, LAMBDA c : c.op \in FirstRunKept),
                       Call("run_pipeline", "", 0, TRUE))
    /\ UNCHANGED <<settings, db, next_id, articles>>

RetryNext ==
    \/ Start
    \/ CollectRssRetry
    \/ ProcessArticle
    \/ Summarize
    \/ SaveDigest
    \/ Notify
    \/ RunAgain

RetrySpec == RetryInit /\ [][RetryNext]_vars

(***************************************************************************)
(* The deduplicator on its own: is_duplicate and deduplicate_articles      *)
(* applied to a list of articles against a history, with the history       *)
(* queries free to raise.  `articles` is the input and `result` what the   *)
(* call returned.                                                          *)
(***************************************************************************)
DedupStoredStories == {1, 3, 5}
DedupFoundStories == {2, 4, 6, 7}

\* the stories is_duplicate is asked about on its own
IsDuplicateStories == DedupFoundStories \cup {8}

DedupBatches == UNION {[1..n -> DedupFoundStories] : n \in 0..MaxDedupBatch}

\* up to two stored articles of different stories, each inside or outside the
\* lookback window
DedupHistories ==
    {h \in UNION {[1..n -> DedupStoredStories \X HistoryDays] : n \in 0..2} :
        Len(h) = 2 => h[1][1] < h[2][1]}

DedupSettings == {st \in Settings : /\ st.email /\ ~st.huatu_enabled
                                    /\ st.topic = None
                                    /\ st.rss_feed_urls = None
                                    /\ st.rss_feed_url = Some(<<"g">>)
                                    /\ st.deduplication_enabled}

DedupInit ==
    /\ settings \in DedupSettings
    /\ pc \in {"is_duplicate", "deduplicate_articles"}
    /\ \E h \in DedupHistories :
       \E batch \in (IF pc = "is_duplicate" THEN [1..1 -> IsDuplicateStories]
                     ELSE DedupBatches) :
          /\ db = HistoryDb(h)
          /\ articles = MakeArticles(batch, 2 * Len(h) + 1, Today)
          /\ next_id = 2 * Len(h) + 1 + Len(batch)
    /\ now = Today
    /\ processed_articles = <<>>
    /\ idx = 1
    /\ digest = NoDigest
    /\ result = "running"
    /\ trace = <<>>

\* is_duplicate(article) on the article of a one-article input
IsDuplicate ==
    /\ pc = "is_duplicate"
    /\ \E query_ok \in (IF settings.database_enabled THEN BOOLEAN ELSE {TRUE}) :
          /\ result' = is_duplicate(articles[1], db, now,
                                    settings.database_enabled, query_ok)
          /\ trace' = trace \o IsDuplicateCalls(articles[1],
                                                settings.database_enabled, query_ok)
    /\ pc' = "is_duplicate_returned"
    /\ UNCHANGED <<settings, db, now, next_id, articles, processed_articles, idx, digest>>

\* deduplicate_articles(articles)
Deduplicate ==
    /\ pc = "deduplicate_articles"
    /\ \E queries_ok \in (IF settings.database_enabled
                          THEN [1..Len(articles) -> BOOLEAN]
                          ELSE {[k \in 1..Len(articles) |-> TRUE]}) :
          /\ result' = deduplicate_articles(articles, db, now,
                                            settings.database_enabled, queries_ok)
          /\ trace' = trace \o DedupCallsFrom(articles, 1, db, now,
                                              settings.database_enabled, queries_ok)
    /\ pc' = "deduplicate_articles_returned"
    /\ UNCHANGED <<settings, db, now, next_id, articles, processed_articles, idx, digest>>

DedupNext ==
    \/ IsDuplicate
    \/ Deduplicate

DedupSpec == DedupInit /\ [][DedupNext]_vars

(***************************************************************************)
(* is_duplicate under a configured settings.deduplication: the process was *)
(* started with a content-similarity threshold and a lookback window that  *)
(* are the defaults or differ from them.  get_deduplicator() builds the    *)
(* ArticleDeduplicator without arguments, and is_duplicate_by_content asks *)
(* for get_recent_articles(days=7, limit=1000), so the operators above     *)
(* read neither field.                                                     *)
(***************************************************************************)
\* settings.deduplication.content_similarity_threshold (in percent) and
\* settings.deduplication.load_existing_days: the default or another value
DeduplicationConfigs ==
    [content_similarity_threshold_pct :
         {CONTENT_SIMILARITY_THRESHOLD_PCT - 5, CONTENT_SIMILARITY_THRESHOLD_PCT},
     load_existing_days : {RECENT_DAYS, RECENT_DAYS + 1}]

ConfiguredSettings ==
    {st @@ cfg : st \in DedupSettings, cfg \in DeduplicationConfigs}

\* the stories is_duplicate is asked about, and the stories of the history
ConfiguredFoundStories == {6, 7, 8}
ConfiguredStoredStories == {1, 5}

\* up to two stored articles of different stories, each inside or outside the
\* default lookback window
ConfiguredHistories ==
    {h \in UNION {[1..n -> ConfiguredStoredStories \X HistoryDays] : n \in 0..2} :
        Len(h) = 2 => h[1][1] < h[2][1]}

ConfiguredInit ==
    /\ settings \in ConfiguredSettings
    /\ pc = "is_duplicate"
    /\ \E h \in ConfiguredHistories : \E story \in ConfiguredFoundStories :
          /\ db = HistoryDb(h)
          /\ articles = MakeArticles(<<story>>, 2 * Len(h) + 1, Today)
          /\ next_id = 2 * Len(h) + 2
    /\ now = Today
    /\ processed_articles = <<>>
    /\ idx = 1
    /\ digest = NoDigest
    /\ result = "running"
    /\ trace = <<>>

ConfiguredNext == IsDuplicate

ConfiguredSpec == ConfiguredInit /\ [][ConfiguredNext]_vars

(***************************************************************************)
(* is_duplicate on articles without content: RSSCollector._parse_rss gives *)
(* an item without a description the content "".                           *)
(***************************************************************************)
BlankFoundStories == {3, 9, 10, 11}
BlankStoredStories == {1, 9, 10}

\* up to two stored articles of different stories, each inside or outside the
\* lookback window
BlankHistories ==
    {h \in UNION {[1..n -> BlankStoredStories \X HistoryDays] : n \in 0..2} :
        Len(h) = 2 => h[1][1] < h[2][1]}

BlankInit ==
    /\ settings \in DedupSettings
    /\ pc = "is_duplicate"
    /\ \E h \in BlankHistories : \E story \in BlankFoundStories :
          /\ db = HistoryDb(h)
          /\ articles = MakeArticles(<<story>>, 2 * Len(h) + 1, Today)
          /\ next_id = 2 * Len(h) + 2
    /\ now = Today
    /\ processed_articles = <<>>
    /\ idx = 1
    /\ digest = NoDigest
    /\ result = "running"
    /\ trace = <<>>

BlankNext == IsDuplicate

BlankSpec == BlankInit /\ [][BlankNext]_vars

(***************************************************************************)
(* urllib.parse, as normalize_url uses it.  A url is a Python str: a       *)
(* sequence of one-character strings.                                      *)
(***************************************************************************)
\* the characters of a string literal
Chars(str) == [k \in 1..Len(str) |-> SubSeq(str, k, k)]

\* str.find(c, start): the first position from start on that holds c, 0 when
\* there is none (positions count from 1)
RECURSIVE Find(_, _, _)
Find(s, c, start) ==
    IF start > Len(s) THEN 0
    ELSE IF s[start] = c THEN start
    ELSE Find(s, c, start + 1)

\* str.rfind(c), searching down from position k
RECURSIVE RFind(_, _, _)
RFind(s, c, k) ==
    IF k = 0 THEN 0
    ELSE IF s[k] = c THEN k
    ELSE RFind(s, c, k - 1)

\* s[:k] and s[k+1:] around position k
Before(s, k) == SubSeq(s, 1, k - 1)
After(s, k) == SubSeq(s, k + 1, Len(s))

\* str.split(sep)
RECURSIVE SplitOn(_, _)
SplitOn(s, sep) ==
    LET k == Find(s, sep, 1)
    IN  IF k = 0 THEN <<s>> ELSE <<Before(s, k)>> \o SplitOn(After(s, k), sep)

\* sep.join(parts)
RECURSIVE Join(_, _)
Join(parts, sep) ==
    IF parts = <<>> THEN <<>>
    ELSE IF Len(parts) = 1 THEN parts[1]
    ELSE parts[1] \o <<sep>> \o Join(Tail(parts), sep)

\* str.rstrip('/')
RECURSIVE RStripSlash(_)
RStripSlash(s) ==
    IF s # <<>> /\ s[Len(s)] = "/" THEN RStripSlash(SubSeq(s, 1, Len(s) - 1)) ELSE s

\* the printable ASCII characters, from code 32 (space) to code 126 (~); the
\* grave accent (code 96), which a string literal cannot hold, stands as its
\* name
Printable ==
    Chars(" !\"#$%&'()*+,-./0123456789:;<=>?@ABCDEFGHIJKLMNOPQRSTUVWXYZ")
        \o Chars("[\\]^_") \o <<"grave">> \o Chars("abcdefghijklmnopqrstuvwxyz{|}~")

\* ord(c) and chr(n) on the printable ASCII characters
Ord(c) == 31 + Find(Printable, c, 1)
Chr(n) == Printable[n - 31]

IsAsciiAlpha(c) == Ord(c) \in (65..90) \cup (97..122)
IsDigit(c) == Ord(c) \in 48..57

\* urllib.parse.scheme_chars
IsSchemeChar(c) == IsAsciiAlpha(c) \/ IsDigit(c) \/ c \in {"+", "-", "."}

\* urllib.parse._ALWAYS_SAFE: the characters quote() never escapes
IsAlwaysSafe(c) == IsAsciiAlpha(c) \/ IsDigit(c) \/ c \in {"_", ".", "-", "~"}

HexLower == Chars("0123456789abcdef")
HexUpper == Chars("0123456789ABCDEF")
IsHex(c) == Find(HexLower, c, 1) > 0 \/ Find(HexUpper, c, 1) > 0
HexVal(c) ==
    IF Find(HexLower, c, 1) > 0 THEN Find(HexLower, c, 1) - 1
    ELSE Find(HexUpper, c, 1) - 1

\* urllib.parse.quote_plus(s, safe=''): a space becomes '+', every character
\* that is not always safe becomes %XX with upper-case hex digits
RECURSIVE quote_plus(_)
quote_plus(s) ==
    IF s = <<>> THEN <<>>
    ELSE LET c == s[1]
             quoted == IF c = " " THEN <<"+">>
                       ELSE IF IsAlwaysSafe(c) THEN <<c>>
                       ELSE <<"%", HexUpper[(Ord(c) \div 16) + 1],
                                   HexUpper[(Ord(c) % 16) + 1]>>
         IN  quoted \o quote_plus(Tail(s))

\* urllib.parse.unquote(s): %XX with two hex digits of either case becomes
\* the character of that code, any other '%' stays.  The escapes of the
\* model are those of printable ASCII characters.
RECURSIVE unquote(_)
unquote(s) ==
    IF s = <<>> THEN <<>>
    ELSE IF /\ s[1] = "%" /\ Len(s) >= 3 /\ IsHex(s[2]) /\ IsHex(s[3])
            /\ 16 * HexVal(s[2]) + HexVal(s[3]) \in 32..126
    THEN <<Chr(16 * HexVal(s[2]) + HexVal(s[3]))>> \o unquote(SubSeq(s, 4, Len(s)))
    ELSE <<s[1]>> \o unquote(Tail(s))

\* str.replace('+', ' ')
PlusToSpace(s) == [k \in 1..Len(s) |-> IF s[k] = "+" THEN " " ELSE s[k]]

\* urllib.parse.uses_params and uses_netloc
uses_params ==
    {Chars(sch) : sch \in {"", "ftp", "hdl", "prospero", "http", "imap", "https",
                           "shttp", "rtsp", "rtsps", "rtspu", "sip", "sips",
                           "mms", "sftp", "tel"}}
uses_netloc ==
    {Chars(sch) : sch \in {"", "ftp", "http", "gopher", "nntp", "telnet", "imap",
                           "wais", "file", "mms", "https", "shttp", "snews",
                           "prospero", "rtsp", "rtsps", "rtspu", "rsync", "svn",
                           "svn+ssh", "sftp", "nfs", "git", "git+ssh", "ws",
                           "wss"}}

\* c occurs in s
Has(s, c) == Find(s, c, 1) > 0

\* urlsplit removes tab, carriage return and newline from the url
RemoveUnsafe(s) == SelectSeq(s, LAMBDA c : c \notin {"\t", "\r", "\n"})

\* urllib.parse.urlsplit(url), statement by statement.  raises is TRUE when
\* it raises ValueError ("Invalid IPv6 URL": one bracket of a pair in the
\* netloc).  A netloc with both brackets goes on to _check_bracketed_host,
\* which the urls of the model do not reach.
\* ... if '?' in url: url, query = url.split('?', 1)
SplitQuery(scheme, netloc, url, fragment) ==
    [raises |-> Has(netloc, "[") # Has(netloc, "]"),
     scheme |-> scheme, netloc |-> netloc,
     path |-> IF Has(url, "?") THEN Before(url, Find(url, "?", 1)) ELSE url,
     query |-> IF Has(url, "?") THEN After(url, Find(url, "?", 1)) ELSE <<>>,
     fragment |-> fragment]

\* ... if '#' in url: url, fragment = url.split('#', 1)
SplitFragment(scheme, netloc, url) ==
    IF Has(url, "#")
    THEN SplitQuery(scheme, netloc, Before(url, Find(url, "#", 1)),
                    After(url, Find(url, "#", 1)))
    ELSE SplitQuery(scheme, netloc, url, <<>>)

\* _splitnetloc(url, 2): the netloc ends before the first of '/', '?', '#'
NetlocEnd(url) ==
    LET delims == {k \in 3..Len(url) : url[k] \in {"/", "?", "#"}}
    IN  IF delims = {} THEN Len(url) + 1
        ELSE CHOOSE k \in delims : \A j \in delims : k <= j

\* ... if url[:2] == '//': netloc, url = _splitnetloc(url, 2)
SplitNetloc(scheme, url) ==
    IF Len(url) >= 2 /\ url[1] = "/" /\ url[2] = "/"
    THEN SplitFragment(scheme, SubSeq(url, 3, NetlocEnd(url) - 1),
                       SubSeq(url, NetlocEnd(url), Len(url)))
    ELSE SplitFragment(scheme, <<>>, url)

\* ... i = url.find(':'); a scheme is a letter followed by scheme characters
SplitScheme(url, i) ==
    IF /\ i > 1
       /\ IsAsciiAlpha(url[1])
       /\ \A k \in 1..(i - 1) : IsSchemeChar(url[k])
    THEN SplitNetloc(LowerStr(Before(url, i)), After(url, i))
    ELSE SplitNetloc(<<>>, url)

FirstColon(url) == SplitScheme(url, Find(url, ":", 1))

urlsplit(url) == FirstColon(RemoveUnsafe(LStrip(url)))

\* urllib.parse._splitparams(url): the parameters of the last path segment
\* (when there is a '/' and no ';' after the last one, find answers -1)
splitparams(url) ==
    LET i == IF Has(url, "/") THEN Find(url, ";", RFind(url, "/", Len(url)))
             ELSE Find(url, ";", 1)
    IN  IF Has(url, "/") /\ i = 0 THEN [path |-> url, params |-> <<>>]
        ELSE [path |-> Before(url, i), params |-> After(url, i)]

\* urlparse, after urlsplit: if scheme in uses_params and ';' in url
SplitParams(split) ==
    LET with_params == split.scheme \in uses_params /\ Has(split.path, ";")
    IN  [raises |-> split.raises, scheme |-> split.scheme, netloc |-> split.netloc,
         path |-> IF with_params THEN splitparams(split.path).path ELSE split.path,
         params |-> IF with_params THEN splitparams(split.path).params ELSE <<>>,
         query |-> split.query, fragment |-> split.fragment]

\* urllib.parse.urlparse(url)
urlparse(url) == SplitParams(urlsplit(url))

\* urllib.parse.parse_qsl(qs): the (name, value) pairs of the fields that
\* have an '=' and a non-blank value, unquoted, in order
RECURSIVE QueryPairs(_)
QueryPairs(query_args) ==
    IF query_args = <<>> THEN <<>>
    ELSE LET name_value == query_args[1]
             e == Find(name_value, "=", 1)
             others == QueryPairs(Tail(query_args))
         IN  IF name_value = <<>> \/ e = 0 \/ After(name_value, e) = <<>>
             THEN others
             ELSE << [name  |-> unquote(PlusToSpace(Before(name_value, e))),
                      value |-> unquote(PlusToSpace(After(name_value, e)))] >>
                  \o others

parse_qsl(qs) == IF qs = <<>> THEN <<>> ELSE QueryPairs(SplitOn(qs, "&"))

\* urllib.parse.parse_qs(qs): a dict from each name to the list of its
\* values; a dict iterates in the order its keys were first inserted, so the
\* pairs come out name by name
RECURSIVE GroupByName(_)
GroupByName(pairs) ==
    IF pairs = <<>> THEN <<>>
    ELSE SelectSeq(pairs, LAMBDA p : p.name = pairs[1].name)
         \o GroupByName(SelectSeq(pairs, LAMBDA p : p.name # pairs[1].name))

parse_qs(qs) == GroupByName(parse_qsl(qs))

\* urllib.parse.urlencode(query, doseq=True)
urlencode(pairs) ==
    Join([k \in 1..Len(pairs) |->
             quote_plus(pairs[k].name) \o <<"=">> \o quote_plus(pairs[k].value)],
         "&")

\* urllib.parse.urlunsplit, statement by statement
\* ... if query: url = url + '?' + query
WithQuery(url, query) == IF query # <<>> THEN url \o <<"?">> \o query ELSE url

\* ... if scheme: url = scheme + ':' + url
WithScheme(scheme, url) == IF scheme # <<>> THEN scheme \o <<":">> \o url ELSE url

\* ... if netloc or (scheme and scheme in uses_netloc and url[:2] != '//'):
\*         if url and url[:1] != '/': url = '/' + url
\*         url = '//' + (netloc or '') + url
WithNetloc(scheme, netloc, url) ==
    IF \/ netloc # <<>>
       \/ /\ scheme # <<>> /\ scheme \in uses_netloc
          /\ ~(Len(url) >= 2 /\ url[1] = "/" /\ url[2] = "/")
    THEN <<"/", "/">> \o netloc
             \o (IF url # <<>> /\ url[1] # "/" THEN <<"/">> \o url ELSE url)
    ELSE url

urlunsplit(scheme, netloc, url, query) ==
    WithQuery(WithScheme(scheme, WithNetloc(scheme, netloc, url)), query)

\* urllib.parse.urlunparse((scheme, netloc, path, params, query, ''))
urlunparse(scheme, netloc, path, params, query) ==
    urlunsplit(scheme, netloc,
               IF params # <<>> THEN path \o <<";">> \o params ELSE path, query)

\* normalize_url: the tracking parameters
tracking_params ==
    {Chars(name) : name \in {"utm_source", "utm_medium", "utm_campaign",
                             "utm_term", "utm_content", "fbclid", "gclid", "ref",
                             "source", "from", "_t", "share"}}

\* normalize_url: filtered_params, the parsed query without the tracking
\* parameters
filtered_params(query) ==
    SelectSeq(parse_qs(query), LAMBDA p : LowerStr(p.name) \notin tracking_params)

\* normalize_url: the url rebuilt from its parts; when urlparse raised, the
\* except clause returns url.lower().strip()
Rebuilt(parsed, lowered) ==
    IF parsed.raises THEN lowered
    ELSE urlunparse(parsed.scheme, parsed.netloc, RStripSlash(parsed.path),
                    parsed.params, urlencode(filtered_params(parsed.query)))

Lowered(lowered) == Rebuilt(urlparse(lowered), lowered)

\* ArticleDeduplicator.normalize_url
normalize_url(url) == Lowered(Strip(LowerStr(url)))

(***************************************************************************)
(* normalize_url on its own, applied to a url and then to its own output.  *)
(* The url is articles[1].url, `result` what the last call returned and    *)
(* `trace` the calls with their arguments.                                 *)
(***************************************************************************)
\* scheme and host, in either case, or a host that urlsplit rejects
UrlHosts == {Chars(str) : str \in {"http://x.com", "HTTP://X.com", "http://["}}

\* paths: none, with trailing slashes, with a space or a ';' before the
\* trailing slash
UrlPaths == {Chars(str) : str \in {"", "/", "/a/", "/a /", "/a;/"}}

\* query fields: plain, repeated name, blank value, a tracking parameter, a
\* percent-encoded value
UrlFields ==
    {Chars(str) : str \in {"a=1", "b=2", "a=3", "b=", "Ref=9", "c=%41"}}

\* the query strings of up to MaxUrlFields fields, and no query at all
UrlQueries ==
    {<<>>} \cup {<<"?">> \o Join(fields, "&") :
                    fields \in UNION {[1..n -> UrlFields] : n \in 0..MaxUrlFields}}

UrlFragments == {Chars(str) : str \in {"", "#f"}}

Urls ==
    {host \o path \o query \o fragment :
        host \in UrlHosts, path \in UrlPaths, query \in UrlQueries,
        fragment \in UrlFragments}

UrlInit ==
    /\ settings \in DedupSettings /\ settings.database_enabled
    /\ db = HistoryDb(<<>>)
    /\ now = Today
    /\ next_id = 2
    /\ pc = "normalize_url"
    /\ \E url \in Urls :
          articles = <<[id |-> 1, url |-> url, content |-> <<>>, created_at |-> Today]>>
    /\ processed_articles = <<>>
    /\ idx = 1
    /\ digest = NoDigest
    /\ result = "running"
    /\ trace = <<>>

\* normalize_url(article.url)
NormalizeUrl ==
    /\ pc = "normalize_url"
    /\ result' = normalize_url(articles[1].url)
    /\ trace' = Append(trace, Call("normalize_url", "", articles[1].url, TRUE))
    /\ pc' = "normalize_url_returned"
    /\ UNCHANGED <<settings, db, now, next_id, articles, processed_articles, idx, digest>>

\* normalize_url applied to the url it returned
NormalizeAgain ==
    /\ pc = "normalize_url_returned"
    /\ result' = normalize_url(result)
    /\ trace' = Append(trace, Call("normalize_url", "", result, TRUE))
    /\ pc' = "normalized_again"
    /\ UNCHANGED <<settings, db, now, next_id, articles, processed_articles, idx, digest>>

UrlNext ==
    \/ NormalizeUrl
    \/ NormalizeAgain

UrlSpec == UrlInit /\ [][UrlNext]_vars

(***************************************************************************)
(* calculate_content_similarity on its own, applied to the contents of two *)
(* articles; `result` is the ratio it returned.                            *)
(***************************************************************************)
\* contents: empty, whitespace only, equal up to case and spacing, and
\* strings with a common block in different places
SimilarityContents ==
    {Chars(str) : str \in {"", " ", "ab", "AB ", "a b", "a  B", "bacb", "tide",
                           "diet", "abc", "bbaabbab", "bbabba"}}

SimilarityInit ==
    /\ settings \in DedupSettings /\ settings.database_enabled
    /\ db = HistoryDb(<<>>)
    /\ now = Today
    /\ next_id = 3
    /\ pc = "calculate_content_similarity"
    /\ \E content1, content2 \in SimilarityContents :
          articles = << [id |-> 1, url |-> "http://x.com/a", content |-> content1,
                         created_at |-> Today],
                        [id |-> 2, url |-> "http://x.com/b", content |-> content2,
                         created_at |-> Today] >>
    /\ processed_articles = <<>>
    /\ idx = 1
    /\ digest = NoDigest
    /\ result = "running"
    /\ trace = <<>>

\* calculate_content_similarity(article.content, existing_article.content)
CompareContents ==
    /\ pc = "calculate_content_similarity"
    /\ result' = calculate_content_similarity(articles[1].content, articles[2].content)
    /\ pc' = "calculate_content_similarity_returned"
    /\ UNCHANGED <<settings, db, now, next_id, articles, processed_articles, idx,
                   digest, trace>>

SimilarityNext == CompareContents

SimilaritySpec == SimilarityInit /\ [][SimilarityNext]_vars

(***************************************************************************)
(* run_scheduler: one job is added to an AsyncIOScheduler according to     *)
(* settings.scheduler, the scheduler is started, and the coroutine sleeps  *)
(* in a loop until KeyboardInterrupt.  `trace` records the calls on the    *)
(* scheduler and on asyncio.sleep.                                         *)
(***************************************************************************)
\* SchedulerConfig(): the field defaults
DefaultSchedulerConfig ==
    [timezone |-> "Asia/Shanghai", mode |-> "interval",
     interval_hours |-> 1, interval_minutes |-> 0,
     hour |-> Some(9), minute |-> Some(0), second |-> Some(0)]

\* settings.scheduler: the defaults, or a configured mode, timezone or time
SchedulerConfigs ==
    [timezone : {"Asia/Shanghai", "UTC"}, mode : {"interval", "cron", "daily"},
     interval_hours : {1}, interval_minutes : {0, 30},
     hour : {None, Some(9), Some(18)}, minute : {Some(0)}, second : {None, Some(0)}]

\* x if x is not None else default
OrDefault(opt, default) == IF opt # None THEN opt[1] ELSE default

\* the arguments of scheduler.add_job(run_pipeline, trigger, ...,
\* timezone=timezone, id='news_digest_job')
AddJobArgs(sched_config) ==
    [func |-> "run_pipeline", trigger |-> sched_config.mode,
     timezone |-> Some(sched_config.timezone), id |-> "news_digest_job",
     schedule |-> IF sched_config.mode = "interval"
                  THEN <<sched_config.interval_hours, sched_config.interval_minutes>>
                  ELSE <<OrDefault(sched_config.hour, 9),
                         OrDefault(sched_config.minute, 0),
                         OrDefault(sched_config.second, 0)>>]

SchedulerInit ==
    /\ settings \in {st @@ [scheduler |-> sched_config] :
                        st \in DedupSettings, sched_config \in SchedulerConfigs}
    /\ db = HistoryDb(<<>>)
    /\ now = Today
    /\ next_id = 1
    /\ pc = "run_scheduler"
    /\ articles = <<>>
    /\ processed_articles = <<>>
    /\ idx = 1
    /\ digest = NoDigest
    /\ result = "running"
    /\ trace = <<>>

\* lines 273-323: the scheduler is created and the job added; an unknown mode
\* or an exception of add_job is logged and run_scheduler returns
AddJob ==
    /\ pc = "run_scheduler"
    /\ IF settings.scheduler.mode \notin {"interval", "cron"}
       THEN /\ trace' = Append(trace, Call("AsyncIOScheduler", "", 0, TRUE))
            /\ Return("None")
       ELSE \E ok \in BOOLEAN :
               /\ trace' = trace \o
                      << Call("AsyncIOScheduler", "", 0, TRUE),
                         Call("add_job", settings.scheduler.mode,
                              AddJobArgs(settings.scheduler), ok) >>
               /\ IF ok THEN pc' = "start" /\ UNCHANGED result
                  ELSE Return("None")
    /\ UNCHANGED <<settings, db, now, next_id, articles, processed_articles, idx, digest>>

\* line 326: scheduler.start()
StartScheduler ==
    /\ pc = "start"
    /\ trace' = Append(trace, Call("start", "", 0, TRUE))
    /\ pc' = "keep_alive"
    /\ UNCHANGED <<settings, db, now, next_id, articles, processed_articles, idx,
                   digest, result>>

\* lines 337-339: asyncio.sleep(60) returns and the loop goes round
Heartbeat ==
    /\ pc = "keep_alive"
    /\ Len(SelectSeq(trace, LAMBDA c : c.op = "sleep")) < MaxHeartbeats
    /\ trace' = Append(trace, Call("sleep", "", 60, TRUE))
    /\ UNCHANGED <<settings, db, now, next_id, pc, articles, processed_articles,
                   idx, digest, result>>

\* lines 340-343: KeyboardInterrupt is raised in asyncio.sleep; the handler
\* shuts the scheduler down and run_scheduler returns
Interrupt ==
    /\ pc = "keep_alive"
    /\ trace' = trace \o << Call("sleep", "", 60, FALSE),
                            Call("shutdown", "", 0, TRUE) >>
    /\ Return("None")
    /\ UNCHANGED <<settings, db, now, next_id, articles, processed_articles, idx, digest>>

SchedulerNext ==
    \/ AddJob
    \/ StartScheduler
    \/ Heartbeat
    \/ Interrupt

SchedulerSpec == SchedulerInit /\ [][SchedulerNext]_vars

(***************************************************************************)
(* Reading the trace.                                                      *)
(***************************************************************************)
\* the positions of the calls of one operation
CallsOf(op) == {k \in 1..Len(trace) : trace[k].op = op}

\* the fetches of the run, in order (a fetch that raised included)
Fetches == SelectSeq(trace, LAMBDA e : e.op = "fetch")

\* collector who had its fetch invoked
Fetched(who) == \E k \in CallsOf("fetch") : trace[k].who = who

\* no collector raised (fetch or constructor)
NoCollectorRaised ==
    \A k \in CallsOf("fetch") \cup CallsOf("RSSCollector") : trace[k].ok

\* the articles the fetch at position k left after deduplication
LeftBy(k) ==
    IF k < Len(trace) /\ trace[k + 1].op = "deduplicate_articles"
    THEN trace[k + 1].arg
    ELSE trace[k].arg

\* the configured topic is non-empty after trimming, read off the setting
TopicNonBlank ==
    /\ settings.topic # None
    /\ \E k \in 1..Len(settings.topic[1]) : ~IsSpace(settings.topic[1][k])

\* at least one feed url is configured
FeedConfigured ==
    \/ settings.rss_feed_urls # None /\ settings.rss_feed_urls[1] # <<>>
    \/ settings.rss_feed_url # None /\ settings.rss_feed_url[1] # <<>>

\* the run called the LLM, the storage or the notifier
Worked ==
    \E k \in 1..Len(trace) :
        trace[k].op \in {"process_article", "summarize_articles",
                         "save_processed_article", "save_digest", "send_digest"}

(***************************************************************************)
(* Claims.                                                                 *)
(***************************************************************************)
\* C1 (as stated): in a run in which no collector raises, at most one of the
\* three collectors has its fetch invoked.
C1_AtMostOneFetch ==
    NoCollectorRaised => Cardinality({trace[k].who : k \in CallsOf("fetch")}) <= 1

\* C1 (amended): in a run in which no collector raises, no collector is fetched
\* twice, the search and the RSS collector are never both fetched, and a second
\* collector is fetched only after the portal collector, fetched first, left
\* no article (it returned an empty list or deduplication removed them all).
C1_OneFetchAfterEmptyPortal ==
    NoCollectorRaised =>
        /\ Len(Fetches) <= 2
        /\ ~(Fetched("search") /\ Fetched("rss"))
        /\ \A k \in CallsOf("fetch") :
               (\E j \in CallsOf("fetch") : j < k) =>
                   /\ trace[k].who # "huatu"
                   /\ \A j \in CallsOf("fetch") :
                          j < k => trace[j].who = "huatu" /\ LeftBy(j) = 0

\* witness of C1: the portal fetch returned articles that deduplication
\* removed, and the search collector was then fetched in the same run
C1_Witness ==
    /\ NoCollectorRaised
    /\ Len(Fetches) = 2
    /\ Fetches[1].who = "huatu" /\ Fetches[1].arg > 0
    /\ Fetches[2].who = "search" /\ Fetches[2].arg > 0
    /\ pc = "process"

\* C2: the precedence portal > search > RSS.  With the portal enabled the
\* first collector fetched is the portal, whatever the topic; with the portal
\* disabled and a non-blank topic the search collector is fetched and the RSS
\* collector never is, feed urls or not; the RSS collector is fetched only when
\* the topic is absent or blank and a feed url is configured.
C2_Precedence ==
    /\ settings.huatu_enabled =>
           /\ Fetches # <<>> => Fetches[1].who = "huatu"
           /\ settings.email /\ pc \notin {"start", "huatu"} => Fetches # <<>>
    /\ ~settings.huatu_enabled /\ TopicNonBlank =>
           /\ ~Fetched("rss")
           /\ settings.email /\ pc \notin {"start", "other"} => Fetched("search")
    /\ Fetched("rss") => ~TopicNonBlank /\ FeedConfigured

\* witness of C2: portal disabled, a topic and feed urls both configured, and
\* the run is over with the search collector fetched
C2_Witness ==
    /\ ~settings.huatu_enabled
    /\ TopicNonBlank
    /\ FeedConfigured
    /\ Fetched("search")
    /\ pc = "done"

\* the collector the selection rule of the specification picks
SelectedCollector ==
    IF settings.huatu_enabled THEN "huatu"
    ELSE IF TopicNonBlank THEN "search"
    ELSE IF FeedConfigured THEN "rss"
    ELSE "none"

\* the selected collector was fetched and returned an empty list
SelectedReturnedZero ==
    \E k \in CallsOf("fetch") :
        trace[k].who = SelectedCollector /\ trace[k].ok /\ trace[k].arg = 0

\* C3 (as stated): with the notification channel configured, when no collector
\* is selectable or the selected collector returns zero articles, the run
\* returns None and makes no summarizer call, no storage save and no send.
C3_NothingCollected ==
    settings.email /\ pc = "done"
        /\ (SelectedCollector = "none" \/ SelectedReturnedZero)
    => result = "None" /\ ~Worked

\* C3 (amended): with the notification channel configured, when no collector
\* is selectable, or the selected collector returns zero articles and no
\* collector fetched in the run returns any article, the run returns None and
\* makes no summarizer call, no storage save and no send.
C3_NothingCollectedAtAll ==
    settings.email /\ pc = "done"
        /\ \/ SelectedCollector = "none"
           \/ /\ SelectedReturnedZero
              /\ \A k \in CallsOf("fetch") : trace[k].arg = 0
    => result = "None" /\ ~Worked

\* witness of C3: the portal collector returned nothing, the search collector
\* fetched after it returned nothing either, and the run is over
C3_Witness ==
    /\ settings.email /\ pc = "done"
    /\ SelectedCollector = "huatu"
    /\ SelectedReturnedZero
    /\ Fetched("search")
    /\ \A k \in CallsOf("fetch") : trace[k].ok /\ trace[k].arg = 0
    /\ result = "None"

\* second witness of C3: no collector is selectable
C3_WitnessNoCollector ==
    settings.email /\ pc = "done" /\ SelectedCollector = "none" /\ result = "None"

\* C4: without the email configuration run_pipeline raises ValueError before
\* any fetch, whatever the collector settings; nothing is collected,
\* processed, saved or sent.
C4_FailFast ==
    ~settings.email /\ pc # "start" =>
        /\ pc = "done"
        /\ result = "ValueError"
        /\ CallsOf("fetch") = {} /\ CallsOf("RSSCollector") = {}
        /\ ~Worked
        /\ articles = <<>> /\ processed_articles = <<>> /\ digest = NoDigest

\* witness of C4: the email configuration is absent, a collector is
\* configured, and the run is over
C4_Witness ==
    /\ ~settings.email
    /\ settings.huatu_enabled /\ TopicNonBlank /\ FeedConfigured
    /\ pc = "done"

\* the search or the RSS collector raised
SearchOrRssRaised ==
    \E k \in CallsOf("fetch") \cup CallsOf("RSSCollector") :
        trace[k].who \in {"search", "rss"} /\ ~trace[k].ok

\* C5: if the search or the RSS collector raises, run_pipeline returns None
\* and neither the summarizer nor the notifier is called in the run.
C5_CollectorFailure ==
    SearchOrRssRaised =>
        /\ pc = "done"
        /\ result = "None"
        /\ CallsOf("process_article") = {}
        /\ CallsOf("summarize_articles") = {}
        /\ CallsOf("send_digest") = {}

\* witness of C5: the fetch of the search collector raised
C5_Witness ==
    \E k \in CallsOf("fetch") : trace[k].who = "search" /\ ~trace[k].ok

\* the fetch of the portal collector raised
HuatuRaised == \E k \in CallsOf("fetch") : trace[k].who = "huatu" /\ ~trace[k].ok

\* C6: if the portal collection raises, the run goes on to the next strategy
\* (search with a non-blank topic, else RSS with a feed url) and its outcome is
\* the outcome of that strategy: a Digest exactly when an article of the
\* fallback was processed, None otherwise.
C6_PortalFallThrough ==
    HuatuRaised =>
        /\ trace[Len(trace)].op = "fetch" /\ trace[Len(trace)].who = "huatu" =>
               \/ pc = "other" /\ result = "running"
               \/ /\ pc = "done" /\ result = "None"
                  /\ ~TopicNonBlank /\ ~FeedConfigured
        /\ pc = "done" =>
               /\ TopicNonBlank => Fetched("search")
               /\ ~TopicNonBlank /\ FeedConfigured =>
                      Fetched("rss") \/ CallsOf("RSSCollector") # {}
               /\ ~TopicNonBlank /\ ~FeedConfigured =>
                      ~Fetched("search") /\ ~Fetched("rss") /\ ~Worked
               /\ result \in {"None", "Digest"}
               /\ result = "Digest" <=>
                      \E k \in CallsOf("process_article") : trace[k].ok

\* witness of C6: the portal fetch raised and the run returned the Digest of
\* the articles the search collector found
C6_Witness ==
    HuatuRaised /\ Fetched("search") /\ pc = "done" /\ result = "Digest"

\* process_article returned for the article with this id
ProcessedOk(id) ==
    \E k \in CallsOf("process_article") : trace[k].arg = id /\ trace[k].ok

\* the articles of the Digest, as the articles they were made from
DigestOriginals == [k \in 1..Len(digest.articles) |-> digest.articles[k].original_article]

C9_SentOnce ==
    result = "Digest" =>
        /\ Cardinality(CallsOf("send_digest")) = 1
        /\ \A k \in CallsOf("send_digest") : trace[k].arg = digest.id
        /\ Len(digest.articles) =
               Cardinality({k \in CallsOf("process_article") : trace[k].ok})
        /\ \A k \in CallsOf("process_article") :
               trace[k].ok =>
                   \E j \in 1..Len(digest.articles) :
                       digest.articles[j].original_article.id = trace[k].arg

\* witness of C9: a run returned a Digest of two articles
C9_Witness ==
    result = "Digest" /\ Len(digest.articles) = 2

\* C10 (as stated): if send_digest raises, the failure is the outcome of the
\* run; the run does not return a Digest.
C10_SendFailurePropagates ==
    pc = "done" /\ (\E k \in CallsOf("send_digest") : ~trace[k].ok)
    => result # "Digest"

\* a storage call of the run raised: init_db, save_processed_article or
\* save_digest
StorageRaised ==
    \E k \in CallsOf("init_db") \cup CallsOf("save_processed_article")
              \cup CallsOf("save_digest") : ~trace[k].ok

\* C11: storage failures never abort a run.  If init_db, a
\* save_processed_article call or save_digest raised, every collected article
\* still had process_article called on it once, and when at least one was
\* processed send_digest was called with the Digest of all the processed
\* articles and that Digest is what the run returned.
C11_StorageNonFatal ==
    StorageRaised /\ settings.email /\ pc = "done" =>
        /\ \A j \in 1..Len(articles) :
               Cardinality({k \in CallsOf("process_article") :
                                trace[k].arg = articles[j].id}) = 1
        /\ (\E k \in CallsOf("process_article") : trace[k].ok) =>
               /\ result = "Digest"
               /\ DigestOriginals = SelectSeq(articles, LAMBDA a : ProcessedOk(a.id))
               /\ \E k \in CallsOf("send_digest") : trace[k].arg = digest.id

\* witness of C11: init_db raised, the save of the first of two processed
\* articles raised, save_digest raised, and the run returned its Digest
C11_Witness ==
    /\ pc = "done" /\ result = "Digest"
    /\ \E k \in CallsOf("init_db") : ~trace[k].ok
    /\ \E k \in CallsOf("save_digest") : ~trace[k].ok
    /\ Len(digest.articles) = 2
    /\ \E k \in CallsOf("save_processed_article") :
           trace[k].arg = digest.articles[1].id /\ ~trace[k].ok

\* how many articles process_article returned for
ProcessedCount == Cardinality({k \in CallsOf("process_article") : trace[k].ok})

\* C12 (as stated): summarize_articles is invoked if and only if more than one
\* article was successfully processed; with exactly one processed article,
\* however many were collected, it is not invoked and the Digest has no
\* overall summary.
C12_SummaryIffSeveralProcessed ==
    pc = "done" =>
        /\ CallsOf("summarize_articles") # {} <=> ProcessedCount > 1
        /\ ProcessedCount = 1 =>
               CallsOf("summarize_articles") = {} /\ digest.overall_summary = None

\* C12 (amended): summarize_articles is invoked, once, if and only if at least
\* one article was processed and more than one article was collected (left
\* after deduplication); a run that collected exactly one article does not
\* invoke it and its Digest has no overall summary.
C12_SummaryIffSeveralCollected ==
    /\ CallsOf("summarize_articles") # {} =>
           /\ Cardinality(CallsOf("summarize_articles")) = 1
           /\ Len(articles) > 1
           /\ ProcessedCount >= 1
    /\ digest # NoDigest /\ Len(articles) > 1 => CallsOf("summarize_articles") # {}
    /\ digest # NoDigest /\ Len(articles) = 1 =>
           CallsOf("summarize_articles") = {} /\ digest.overall_summary = None

\* witness of C12: two articles were collected, one of them was processed,
\* and the summarizer was invoked on the two
C12_Witness ==
    /\ pc = "done" /\ result = "Digest"
    /\ Len(articles) = 2 /\ ProcessedCount = 1
    /\ \E k \in CallsOf("summarize_articles") : trace[k].arg = 2

\* second witness of C12: a run with one collected article returned its Digest
C12_WitnessSingle ==
    pc = "done" /\ result = "Digest" /\ Len(articles) = 1

\* C13 (as stated): if the LLM call of the overall summary raises in a
\* multi-article run, the run still builds and sends a Digest, whose
\* overall_summary is None and whose title is the plain app-name + timestamp
\* title.
C13_SummaryFailureOmitted ==
    (\E k \in CallsOf("summarize_articles") : ~trace[k].ok) =>
        /\ digest # NoDigest
        /\ digest.overall_summary = None
        /\ digest.title = "app_name - time"
        /\ pc = "done" =>
               /\ result = "Digest"
               /\ \E k \in CallsOf("send_digest") : trace[k].arg = digest.id

\* the summarizer raised in the run: a process_article call, or the LLM call
\* of summarize_articles
SummarizerRaised ==
    \E k \in CallsOf("process_article") \cup CallsOf("summarize_articles") :
        ~trace[k].ok

Skipped(id) ==
    \E k \in CallsOf("log") :
        trace[k].arg = id /\ trace[k].who = "Skipping duplicate article"

\* C15: deduplicate_articles returns a subsequence of its input: an order
\* preserving, injective choice of input positions gives the output, the
\* output is no longer than the input, is_duplicate decided once on every
\* input article, and the articles left out are exactly those it flagged.
C15_Subsequence ==
    pc = "deduplicate_articles_returned" =>
        /\ Len(result) <= Len(articles)
        /\ \E f \in [1..Len(result) -> 1..Len(articles)] :
               /\ \A k \in 1..Len(result) : result[k] = articles[f[k]]
               /\ \A j, k \in 1..Len(result) : j < k => f[j] < f[k]
        /\ \A k \in 1..Len(articles) :
               /\ Cardinality({e \in CallsOf("log") : trace[e].arg = articles[k].id}) = 1
               /\ Skipped(articles[k].id) <=>
                      ~\E j \in 1..Len(result) : result[j].id = articles[k].id

\* witness of C15: of three input articles the second was flagged and the
\* first and the third were returned
C15_Witness ==
    /\ pc = "deduplicate_articles_returned"
    /\ Len(articles) = 3
    /\ result = <<articles[1], articles[3]>>
    /\ Skipped(articles[2].id)

\* the history query made for the article with this id raised
QueryRaised(op, id) ==
    \E k \in CallsOf(op) : trace[k].arg = id /\ ~trace[k].ok

\* what the call says about the article with this id: flagged by is_duplicate,
\* or left out by deduplicate_articles
Flagged(id) ==
    IF pc = "is_duplicate_returned" THEN result.dup
    ELSE ~\E j \in 1..Len(result) : result[j].id = id

MatchesRecent(article) ==
    \E j \in 1..Len(db.articles) :
        /\ db.articles[j].created_at >= now - RECENT_DAYS
        /\ normalize_content(db.articles[j].content) = normalize_content(article.content)

SameOrTracked(url, U) == url = U \/ url = U \o "?utm_source=y"

\* C17 (as stated): with the database enabled and a stored article of url U,
\* is_duplicate on an article whose url is U, or U with tracking parameters
\* appended, returns True through the URL check, whatever the two contents.
C17_UrlDuplicate ==
    /\ pc = "is_duplicate_returned"
    /\ settings.database_enabled
    /\ \E j \in 1..Len(db.articles) : SameOrTracked(articles[1].url, db.articles[j].url)
    => result.dup /\ result.reason = "URL duplicate"

\* the stored articles of the lookback window
RecentRows ==
    {j \in 1..Len(db.articles) : db.articles[j].created_at >= now - RECENT_DAYS}

\* the similarity of the two contents is 0.85 = 17/20 or more
SimilarEnough(content1, content2) ==
    LET similarity == calculate_content_similarity(content1, content2)
    IN  20 * similarity.num >= 17 * similarity.den

\* no stored article has the url of the article, tracking parameters aside
NoUrlMatch(article) ==
    \A j \in 1..Len(db.articles) : ~SameOrTracked(article.url, db.articles[j].url)

C18_WitnessBelow ==
    /\ pc = "is_duplicate_returned"
    /\ settings.database_enabled
    /\ ~QueryRaised("get_recent_articles", articles[1].id)
    /\ \E j \in RecentRows :
           calculate_content_similarity(articles[1].content, db.articles[j].content)
               = [num |-> 34, den |-> 41]
    /\ ~result.dup

\* third witness of C18: an equal hash with different urls and different raw
\* contents
C18_WitnessHash ==
    /\ pc = "is_duplicate_returned"
    /\ NoUrlMatch(articles[1])
    /\ \E j \in RecentRows :
           /\ calculate_content_hash(db.articles[j].content)
                  = calculate_content_hash(articles[1].content)
           /\ db.articles[j].content # articles[1].content
    /\ result.dup

\* some stored article of the lookback window has the content hash of the
\* article or a similar content
HistoryHasContent(article) ==
    \E j \in RecentRows :
        \/ calculate_content_hash(db.articles[j].content)
               = calculate_content_hash(article.content)
        \/ SimilarEnough(article.content, db.articles[j].content)

\* C19: deduplicate_articles compares an article with the history only, never
\* with earlier articles of the same list, and leaves the history as it is:
\* two articles of the list with the same url and content and the same query
\* outcome get the same decision, a list none of whose articles is in the
\* history is returned whole, repeats included, and no step of the call
\* changes the database.
C19_HistoryOnly ==
    /\ [](pc = "deduplicate_articles_returned" =>
             /\ \A j, k \in 1..Len(articles) :
                    /\ articles[j].url = articles[k].url
                    /\ articles[j].content = articles[k].content
                    /\ QueryRaised("get_recent_articles", articles[j].id)
                           <=> QueryRaised("get_recent_articles", articles[k].id)
                    => (Flagged(articles[j].id) <=> Flagged(articles[k].id))
             /\ (\A k \in 1..Len(articles) : ~HistoryHasContent(articles[k]))
                    => result = articles)
    /\ [][db' = db]_vars

\* witness of C19: three articles of one url and content, checked with the
\* database enabled against a history of the lookback window that holds
\* another story, were all returned
C19_Witness ==
    /\ pc = "deduplicate_articles_returned"
    /\ settings.database_enabled
    /\ Len(articles) = 3
    /\ \A k \in 2..3 : /\ articles[k].url = articles[1].url
                        /\ articles[k].content = articles[1].content
    /\ RecentRows # {}
    /\ \A k \in 1..3 : ~QueryRaised("get_recent_articles", articles[k].id)
    /\ result = articles

(***************************************************************************)
(* Claims on two consecutive runs (specification TwoRunSpec).              *)
(***************************************************************************)
\* the run is the later of the two
LaterRun == now > Today

\* the earlier run persisted an article with the url and content of `article`,
\* together with its processed form, and the later run falls in its lookback
\* window
PersistedEarlier(article) ==
    \E j \in RecentRows :
        /\ db.articles[j].created_at < now
        /\ db.articles[j].url = article.url
        /\ db.articles[j].content = article.content
        /\ \E p \in 1..Len(db.processed) :
               db.processed[p].original_article_id = db.articles[j].id

ConfiguredRecentRows ==
    {j \in 1..Len(db.articles) :
        db.articles[j].created_at >= now - settings.load_existing_days}

\* the similarity of the two contents reaches the configured threshold,
\* settings.deduplication.content_similarity_threshold
ConfiguredSimilarEnough(content1, content2) ==
    LET similarity == calculate_content_similarity(content1, content2)
    IN  100 * similarity.num
            >= settings.content_similarity_threshold_pct * similarity.den

\* C21 (as stated): the deduplicator applies the configured values: with the
\* database enabled, the history query answering and no URL match,
\* is_duplicate returns True if and only if some stored article of the last
\* settings.deduplication.load_existing_days days has the content hash of the
\* article or a similarity of settings.deduplication.content_similarity_threshold
\* or more, for any configured values.
C21_ConfiguredValuesApplied ==
    /\ pc = "is_duplicate_returned"
    /\ settings.database_enabled
    /\ ~QueryRaised("get_recent_articles", articles[1].id)
    /\ NoUrlMatch(articles[1])
    => (result.dup <=>
           \E j \in ConfiguredRecentRows :
               \/ calculate_content_hash(db.articles[j].content)
                      = calculate_content_hash(articles[1].content)
               \/ ConfiguredSimilarEnough(articles[1].content,
                                          db.articles[j].content))

\* C22 (as stated): normalize_url is idempotent: applied to its own output it
\* returns that output unchanged, for every url.
C22_Idempotent ==
    pc = "normalized_again" => result = trace[2].arg

\* the query string as written in a url: what stands between the first '?'
\* and the fragment
WrittenQuery(url) ==
    LET before_fragment == IF Has(url, "#") THEN Before(url, Find(url, "#", 1)) ELSE url
    IN  IF Has(before_fragment, "?")
        THEN After(before_fragment, Find(before_fragment, "?", 1))
        ELSE <<>>

\* the parameter names of a written query string, one per field, in order
FieldNames(query) ==
    LET fields == SelectSeq(SplitOn(query, "&"), LAMBDA field : field # <<>>)
    IN  [k \in 1..Len(fields) |->
            IF Has(fields[k], "=") THEN Before(fields[k], Find(fields[k], "=", 1))
            ELSE fields[k]]

\* C23 (as stated): the output of normalize_url has no query parameter whose
\* name, in any case, is a tracking parameter, and has every other query
\* parameter of the input, occurrence by occurrence in the order of the
\* input, none dropped.
C23_TrackingRemovedOthersKept ==
    pc = "normalize_url_returned" =>
        FieldNames(WrittenQuery(result))
            = SelectSeq(FieldNames(WrittenQuery(articles[1].url)),
                        LAMBDA name : LowerStr(name) \notin tracking_params)

\* C24 (as stated): calculate_content_similarity is symmetric, returns 1.0
\* whenever the normalized forms of its arguments are identical and
\* non-empty, and returns 0.0 whenever either argument is empty.
C24_SymmetricOneZero ==
    pc = "calculate_content_similarity_returned" =>
        LET content1 == articles[1].content
            content2 == articles[2].content
            swapped == calculate_content_similarity(content2, content1)
        IN  /\ result.num * swapped.den = swapped.num * result.den
            /\ /\ normalize_content(content1) = normalize_content(content2)
               /\ normalize_content(content1) # <<>>
               => result.num = result.den
            /\ content1 = <<>> \/ content2 = <<>> => result.num = 0

\* the positions of the calls of one operation on the scheduler
SchedulerCalls(op) == {k \in 1..Len(trace) : trace[k].op = op}

\* C25 (as stated): with the default configuration run_scheduler adds exactly
\* one job, run_pipeline with a 'cron' trigger, id 'news_digest_job' and a
\* timezone, starts the scheduler exactly once after the job was added, and
\* calls shutdown exactly once when KeyboardInterrupt ends the keep-alive loop.
C25_DefaultCronJob ==
    /\ settings.scheduler = DefaultSchedulerConfig
    /\ pc = "done"
    /\ \E k \in SchedulerCalls("sleep") : ~trace[k].ok
    => /\ Cardinality(SchedulerCalls("add_job")) = 1
       /\ \A k \in SchedulerCalls("add_job") :
              /\ trace[k].arg.func = "run_pipeline"
              /\ trace[k].arg.trigger = "cron"
              /\ trace[k].arg.id = "news_digest_job"
              /\ trace[k].arg.timezone # None
              /\ Cardinality(SchedulerCalls("start")) = 1
              /\ \A j \in SchedulerCalls("start") : k < j
       /\ Cardinality(SchedulerCalls("shutdown")) = 1

(***************************************************************************)
(* The order of the stages inside one run                                  *)
(***************************************************************************)
StorageSaves == CallsOf("save_processed_article") \cup CallsOf("save_digest")

\* C26 (as stated): in a run the stages do not overlap: every
\* deduplicate_articles call comes before the first process_article call, every
\* process_article call comes before the first storage save
\* (save_processed_article or save_digest), and every storage save comes before
\* send_digest is attempted.
C26_StagesDoNotOverlap ==
    /\ \A q \in CallsOf("deduplicate_articles"), p \in CallsOf("process_article") : q < p
    /\ \A p \in CallsOf("process_article"), s \in StorageSaves : p < s
    /\ \A s \in StorageSaves, n \in CallsOf("send_digest") : s < n

\* C26 (as amended): every deduplicate_articles call comes before the first
\* process_article call; each save_processed_article call directly follows a
\* process_article call that returned, and with the database enabled every
\* process_article call that returned is directly followed by one; save_digest
\* comes after every process_article and save_processed_article call; and
\* send_digest comes after every process_article call and every storage save,
\* and with the database enabled after a save_digest call.
C26_StagesInOrder ==
    /\ \A q \in CallsOf("deduplicate_articles"), p \in CallsOf("process_article") : q < p
    /\ \A s \in CallsOf("save_processed_article") :
          /\ s > 1
          /\ trace[s - 1].op = "process_article"
          /\ trace[s - 1].ok
    /\ \A p \in CallsOf("process_article") :
          settings.database_enabled /\ trace[p].ok
              => /\ p < Len(trace)
                 /\ trace[p + 1].op = "save_processed_article"
    /\ \A d \in CallsOf("save_digest") :
          \A k \in CallsOf("process_article") \cup CallsOf("save_processed_article") : k < d
    /\ \A n \in CallsOf("send_digest") :
          /\ \A k \in CallsOf("process_article") \cup StorageSaves : k < n
          /\ settings.database_enabled => CallsOf("save_digest") # {}

\* two articles were deduplicated, processed and saved one after the other, the
\* digest was saved and the send attempted
C26_Witness ==
    /\ CallsOf("deduplicate_articles") # {}
    /\ Cardinality(CallsOf("save_processed_article")) = 2
    /\ CallsOf("save_digest") # {}
    /\ CallsOf("send_digest") # {}

\* C27 (as stated): is_duplicate runs the URL check before the content check
\* and short-circuits: for an article whose url (tracking parameters aside) is
\* the url of a stored article the URL check reports the match, so
\* get_recent_articles is never called and the reason is "URL duplicate"; the
\* URL lookups come before the history query, and the history query is made
\* only when no stored article has the url.
C27_UrlCheckShortCircuits ==
    /\ pc = "is_duplicate_returned"
    /\ settings.database_enabled
    => /\ \A u \in CallsOf("check_article_exists_by_url"),
             g \in CallsOf("get_recent_articles") : u < g
       /\ ~NoUrlMatch(articles[1])
              => /\ CallsOf("get_recent_articles") = {}
                 /\ result = Verdict(TRUE, "URL duplicate")
       /\ CallsOf("get_recent_articles") # {} => NoUrlMatch(articles[1])

(***************************************************************************)
(* Two runs on the same feed                                               *)
(***************************************************************************)
\* the calls of the first run, and those of the second
FirstRunCalls(op) ==
    {k \in CallsOf(op) : \A m \in CallsOf("run_pipeline") : k < m}

SecondRunCalls(op) ==
    {k \in CallsOf(op) : \E m \in CallsOf("run_pipeline") : k > m}

\* the decisions the dedup stage of the second run logged, one per article
\* collected, in order
SecondRunDecisions == SecondRunCalls("log")

\* the n-th call of a set of calls
Nth(calls, n) == CHOOSE k \in calls : Cardinality({j \in calls : j < k}) = n - 1

\* process_article raised for the article with this id in the first run
FailedFirst(id) ==
    \E k \in FirstRunCalls("process_article") : trace[k].arg = id /\ ~trace[k].ok

\* no table holds an article whose process_article call raised
FailedNeverSaved ==
    \A k \in CallsOf("process_article") :
        ~trace[k].ok
            => /\ \A j \in 1..Len(db.articles) : db.articles[j].id # trace[k].arg
               /\ \A j \in 1..Len(db.processed) :
                      db.processed[j].original_article_id # trace[k].arg

\* when the second run has returned, every article its dedup stage kept was
\* handed to process_article
KeptAreProcessed ==
    SecondRun /\ pc = "done"
        => \A l \in SecondRunDecisions :
               trace[l].who = "Added unique article"
                   => \E q \in SecondRunCalls("process_article") :
                          trace[q].arg = trace[l].arg

\* the lookback window holds a stored article with the content hash of the
\* article, or with a content as similar as the threshold asks
StoredAlike(article) ==
    \E j \in RecentRows :
        \/ calculate_content_hash(db.articles[j].content)
               = calculate_content_hash(article.content)
        \/ AtLeastThreshold(calculate_content_similarity(article.content,
                                                         db.articles[j].content))

\* the second run has just collected and deduplicated the entries of the first
Recollected == SecondRun /\ pc = "other" /\ SecondRunDecisions' # {}

\* C28 (as stated): an article whose process_article call raised is never
\* saved, neither in the articles table nor with a processed row; when the
\* second run collects it again its dedup stage keeps it, and the second run
\* hands it to process_article again.
C28_FailedAreRetried ==
    [][/\ FailedNeverSaved'
       /\ KeptAreProcessed'
       /\ Recollected
              => \A n \in 1..Len(articles) :
                     FailedFirst(articles[n].id)
                         => trace'[Nth(SecondRunDecisions', n)].who
                                = "Added unique article"]_vars

\* C28 (as amended): the same, except that the dedup stage of the second run
\* may leave the article out when the lookback window holds another stored
\* article with the same or a similar content.
C28_FailedAreRetriedUnlessAlike ==
    [][/\ FailedNeverSaved'
       /\ KeptAreProcessed'
       /\ Recollected
              => \A n \in 1..Len(articles) :
                     FailedFirst(articles[n].id)
                         => \/ trace'[Nth(SecondRunDecisions', n)].who
                                   = "Added unique article"
                            \/ StoredAlike(articles[n])]_vars

\* process_article raised for the article of the first run; the second run
\* collected it again, kept it and processed it
C28_Witness ==
    /\ SecondRun
    /\ pc = "done"
    /\ \E k \in FirstRunCalls("process_article") : ~trace[k].ok
    /\ \E l \in SecondRunDecisions :
          /\ trace[l].who = "Added unique article"
          /\ \E q \in SecondRunCalls("process_article") :
                 trace[q].arg = trace[l].arg /\ trace[q].ok

\* send_digest raised in the first run
SendFailedFirst == \E k \in FirstRunCalls("send_digest") : ~trace[k].ok

\* the articles table holds the article, and the processed table its
\* processed form
InHistory(article) ==
    /\ \E j \in 1..Len(db.articles) : db.articles[j] = article
    /\ \E j \in 1..Len(db.processed) : db.processed[j].original_article_id = article.id

\* the digest of the second run holds only articles its dedup stage kept
DigestOfKept ==
    SecondRun
        => \A k \in 1..Len(digest.articles) :
               \E l \in SecondRunDecisions :
                   /\ trace[l].who = "Added unique article"
                   /\ trace[l].arg = digest.articles[k].original_article.id

\* every article the run has processed is in the history
ProcessedInHistory ==
    \A p \in 1..Len(processed_articles) :
        InHistory(processed_articles[p].original_article)

SavedAreStored ==
    /\ \A k \in CallsOf("save_processed_article") :
           trace[k].ok => \E j \in 1..Len(db.processed) : db.processed[j].id = trace[k].arg
    /\ \A j \in 1..Len(db.processed) :
           \E i \in 1..Len(db.articles) :
               db.articles[i].id = db.processed[j].original_article_id
    /\ ~SecondRun /\ (\E k \in CallsOf("save_digest") : trace[k].ok)
           => ProcessedInHistory

\* the history query the second run made for its n-th article raised
QueryRaisedFor(n) ==
    \E g \in SecondRunCalls("get_recent_articles") :
        /\ trace[g].arg = trace[Nth(SecondRunDecisions, n)].arg
        /\ ~trace[g].ok

Blank(content) == Strip(content) = <<>>

\* C30 (as stated): with the database enabled and no stored article of the
\* same url, is_duplicate returns False for an article whose content is empty
\* or whitespace only, whatever the history holds, stored articles with an
\* empty or whitespace-only content included.
C30_BlankNeverDuplicate ==
    /\ pc = "is_duplicate_returned"
    /\ settings.database_enabled
    /\ NoUrlMatch(articles[1])
    /\ Blank(articles[1].content)
    => ~result.dup
====
